---- MODULE Spec2Model ----
(***************************************************************************)
(* Cleaning -> enrichment -> assembly pipeline of src/clean_data.py.       *)
(*                                                                         *)
(* Representation of Python values:                                        *)
(*   - a dict is a function from key names to values; an absent key is a   *)
(*     key outside DOMAIN;                                                 *)
(*   - None is the empty tuple <<>>, any other value v of a nullable field *)
(*     is the one-element tuple <<v>>;                                     *)
(*   - a price is an integer count of 1/500 dollar (0.002), so that raw    *)
(*     prices can carry sub-cent digits and round(x, 2) is never an exact  *)
(*     half-cent tie; a 2-decimal price is a multiple of 5;                *)
(*   - a discount percentage is an integer count of tenths of a percent;   *)
(*   - name and category are sequences of one-character strings; sku,      *)
(*     tier labels and colours are atomic strings;                         *)
(*   - a date key "YYYY-MM-DD" is the ordinal of its day: the order of the *)
(*     ISO strings is the order of the ordinals.                           *)
(***************************************************************************)
EXTENDS Integers, Sequences, FiniteSets, TLC

----------------------------------------------------------------------------
(* Python values *)

None == <<>>
Some(v) == <<v>>
Val(x) == x[1]

\* dict.get(key, default)
Get(d, k, default) == IF k \in DOMAIN d THEN d[k] ELSE default

\* d[key] = v on a copy
Put(d, k, v) == [x \in (DOMAIN d) \cup {k} |-> IF x = k THEN v ELSE d[x]]

\* del d[key] on a copy
Del(d, k) == [x \in (DOMAIN d) \ {k} |-> d[x]]

\* sorted(): the elements of a finite set of integers in ascending order
RECURSIVE Sorted(_)
Sorted(S) ==
    IF S = {} THEN <<>>
    ELSE LET m == CHOOSE x \in S : \A y \in S : x <= y
         IN  <<m>> \o Sorted(S \ {m})

\* truth value of a nullable number: None and 0 are false
TruthyNum(x) == x # None /\ Val(x) # 0

\* truth value of a nullable string: None and "" are false
TruthyStr(x) == x # None /\ Val(x) # <<>>

----------------------------------------------------------------------------
(* Text: str.lower, str.strip, str.split, " ".join, str.title *)

LowerCase == <<"a","b","c","d","e","f","g","h","i","j","k","l","m",
               "n","o","p","q","r","s","t","u","v","w","x","y","z">>
UpperCase == <<"A","B","C","D","E","F","G","H","I","J","K","L","M",
               "N","O","P","Q","R","S","T","U","V","W","X","Y","Z">>

Range(s) == {s[i] : i \in DOMAIN s}
IsLower(c) == c \in Range(LowerCase)
IsUpper(c) == c \in Range(UpperCase)
IsCased(c) == IsLower(c) \/ IsUpper(c)
IsSpace(c) == c \in {" ", "\t", "\n"}

IndexOf(s, c) == CHOOSE i \in DOMAIN s : s[i] = c
ToLower(c) == IF IsUpper(c) THEN LowerCase[IndexOf(UpperCase, c)] ELSE c
ToUpper(c) == IF IsLower(c) THEN UpperCase[IndexOf(LowerCase, c)] ELSE c

StrLower(s) == [i \in DOMAIN s |-> ToLower(s[i])]

RECURSIVE LStrip(_)
LStrip(s) == IF s # <<>> /\ IsSpace(Head(s)) THEN LStrip(Tail(s)) ELSE s

RECURSIVE RStrip(_)
RStrip(s) ==
    IF s # <<>> /\ IsSpace(s[Len(s)]) THEN RStrip(SubSeq(s, 1, Len(s) - 1)) ELSE s

StrStrip(s) == RStrip(LStrip(s))

\* number of leading non-whitespace characters
RECURSIVE WordLen(_)
WordLen(s) == IF s = <<>> \/ IsSpace(Head(s)) THEN 0 ELSE 1 + WordLen(Tail(s))

\* " ".join(s.split()): the maximal runs of non-whitespace, joined by one space
RECURSIVE JoinSplit(_)
JoinSplit(s) ==
    LET t == LStrip(s)
        n == WordLen(t)
        rest == JoinSplit(SubSeq(t, n + 1, Len(t)))
    IN  IF t = <<>> THEN <<>>
        ELSE IF rest = <<>> THEN SubSeq(t, 1, n)
        ELSE SubSeq(t, 1, n) \o <<" ">> \o rest

\* str.title(): a cased character is upper-cased when it follows an uncased
\* character (or starts the string) and lower-cased otherwise
StrTitle(s) ==
    [i \in DOMAIN s |->
        IF ~IsCased(s[i]) THEN s[i]
        ELSE IF i > 1 /\ IsCased(s[i - 1]) THEN ToLower(s[i])
        ELSE ToUpper(s[i])]

UnknownProduct ==
    <<"U","n","k","n","o","w","n"," ","P","r","o","d","u","c","t">>
Uncategorized ==
    <<"u","n","c","a","t","e","g","o","r","i","z","e","d">>

\* standardize_category
StandardizeCategory(category) ==
    IF ~TruthyStr(category) THEN Some(Uncategorized)
    ELSE Some(StrStrip(StrLower(Val(category))))

\* clean_product_name
CleanProductName(name) ==
    IF ~TruthyStr(name) THEN Some(UnknownProduct)
    ELSE Some(StrTitle(JoinSplit(Val(name))))

----------------------------------------------------------------------------
(* Numbers *)

\* round(float(x), 2) of a price x in 1/500 dollar: the nearest multiple of
\* 5 (one cent); x mod 5 is never a half, so no tie arises
Round2(x) == 5 * ((2 * x + 5) \div 10)

\* round(v, 1) of the exact value v = (1 - sale/original) * 100, in tenths of
\* a percent: the nearest integer to 1000 * (o - s) / o, an exact half going
\* to the even neighbour (o > 0)
RoundDiscount(o, s) ==
    LET q == 1000 * (o - s)
        n == q \div o
        r == q % o
    IN  IF 2 * r > o \/ (2 * r = o /\ n % 2 = 1) THEN n + 1 ELSE n

\* the exact value lies on a half: binary floating point, not the decimal
\* value, decides the direction there
DiscountTie(o, s) == o > 0 /\ (2000 * (o - s)) % o = 0 /\ ((2000 * (o - s)) \div o) % 2 = 1

Dollars(n) == 500 * n
Percent(n) == 10 * n

----------------------------------------------------------------------------
(* remove_duplicates: the returned list holds the same dict objects as the  *)
(* input list, so it is modelled as the sequence of their positions in it   *)

RECURSIVE RemoveDuplicatesLoop(_, _, _, _)
RemoveDuplicatesLoop(products, k, seen_skus, unique_products) ==
    IF k > Len(products) THEN unique_products
    ELSE IF products[k]["sku"] \notin seen_skus
         THEN RemoveDuplicatesLoop(products, k + 1,
                                   seen_skus \cup {products[k]["sku"]},
                                   Append(unique_products, k))
         ELSE RemoveDuplicatesLoop(products, k + 1, seen_skus, unique_products)

\* mutant: a record is dropped only when it repeats the sku of the record
\* just before it
RemoveDuplicatesAdjacent(products) ==
    Sorted({k \in DOMAIN products :
               k = 1 \/ products[k]["sku"] # products[k - 1]["sku"]})

\* mutant: seen_skus is never filled, every record is kept
RemoveDuplicatesKeepsAll(products) == [k \in DOMAIN products |-> k]

\* mutant: validation runs first, the first record with a present, positive
\* original_price is kept for each sku
RemoveDuplicatesAmongValid(products) ==
    LET Valid(k) == /\ Get(products[k], "original_price", None) # None
                    /\ Val(products[k]["original_price"]) > 0
    IN  Sorted({k \in DOMAIN products :
                   /\ Valid(k)
                   /\ \A j \in 1..(k - 1) :
                         Valid(j) => products[j]["sku"] # products[k]["sku"]})

RemoveDuplicates(products) == RemoveDuplicatesLoop(products, 1, {}, <<>>)

----------------------------------------------------------------------------
(* validate_and_clean_prices *)

\* mutant: the test reads < 0, so a price of exactly 0 passes as valid
InvalidOriginalPriceStrict(product) ==
    \/ Get(product, "original_price", None) = None
    \/ Val(product["original_price"]) < 0

\* original_price is missing, None or <= 0 (line 83)
InvalidOriginalPrice(product) ==
    \/ Get(product, "original_price", None) = None
    \/ Val(product["original_price"]) <= 0

\* mutant: the sale price is rounded but never clamped
ClampedSalePriceUnclamped(product, o) ==
    IF Get(product, "sale_price", None) # None
    THEN Some(Round2(Val(product["sale_price"])))
    ELSE None

\* sale_price after lines 91-98: rounded, and clamped to the rounded original
\* price o; None stays None
ClampedSalePrice(product, o) ==
    IF Get(product, "sale_price", None) # None
    THEN LET s == Round2(Val(product["sale_price"]))
         IN  IF s > o THEN Some(o) ELSE Some(s)
    ELSE None

\* KeyError at line 101 when the record has no sale_price key;
\* ZeroDivisionError at line 102 when the original price rounds to 0.00 and
\* the sale price is negative
ValidateAndCleanPricesRaises(product) ==
    /\ ~InvalidOriginalPrice(product)
    /\ \/ "sale_price" \notin DOMAIN product
       \/ LET o == Round2(Val(product["original_price"]))
              sp == ClampedSalePrice(product, o)
          IN  TruthyNum(sp) /\ Val(sp) < o /\ o = 0

\* KeyError: 'sale_price' at line 101 when the key is missing; otherwise the
\* division by a price rounded to 0.00 at line 102
ValidateAndCleanPricesError(product) ==
    IF "sale_price" \notin DOMAIN product THEN "KeyError"
    ELSE "ZeroDivisionError"

\* lines 100-105
RecalculatedDiscount(o, sp) ==
    IF TruthyNum(sp) /\ Val(sp) < o THEN RoundDiscount(o, Val(sp)) ELSE 0

\* mutant: without a discount to recompute, the raw discount_percentage is
\* left in place instead of being set to 0
ValidateAndCleanPricesTrustsRaw(product) ==
    IF Get(product, "original_price", None) = None
          \/ Val(product["original_price"]) <= 0
    THEN Put(Put(product, "original_price", None), "is_valid", FALSE)
    ELSE LET o == Round2(Val(product["original_price"]))
             sp == ClampedSalePrice(product, o)
             c1 == Put(product, "original_price", Some(o))
             c2 == Put(c1, "sale_price", sp)
             c3 == IF TruthyNum(sp) /\ Val(sp) < o
                   THEN Put(c2, "discount_percentage", Some(RoundDiscount(o, Val(sp))))
                   ELSE Put(c2, "discount_percentage",
                            Get(product, "discount_percentage", Some(0)))
         IN  Put(c3, "is_valid", TRUE)

\* mutant: the early return for an invalid original_price forgets to null the
\* price and to set is_valid, which clean_daily_data then reads as True
ValidateAndCleanPricesNoFlag(product) ==
    IF Get(product, "original_price", None) = None
          \/ Val(product["original_price"]) <= 0
    THEN product
    ELSE LET o == Round2(Val(product["original_price"]))
             sp == ClampedSalePrice(product, o)
             c1 == Put(product, "original_price", Some(o))
             c2 == Put(c1, "sale_price", sp)
             c3 == Put(c2, "discount_percentage", Some(RecalculatedDiscount(o, sp)))
         IN  Put(c3, "is_valid", TRUE)

\* the returned copy, for a product on which the function does not raise; the
\* assignment of line 98 is overwritten by lines 100-105
ValidateAndCleanPrices(product) ==
    IF InvalidOriginalPrice(product)
    THEN Put(Put(product, "original_price", None), "is_valid", FALSE)
    ELSE LET o == Round2(Val(product["original_price"]))
             sp == ClampedSalePrice(product, o)
             c1 == Put(product, "original_price", Some(o))
             c2 == Put(c1, "sale_price", sp)
             c3 == Put(c2, "discount_percentage", Some(RecalculatedDiscount(o, sp)))
         IN  Put(c3, "is_valid", TRUE)

----------------------------------------------------------------------------
(* add_derived_features *)

\* mutant: the cut points are compared with <= instead of <
PriceTierInclusive(price) ==
    IF price > 0
    THEN IF price <= Dollars(50) THEN "budget"
         ELSE IF price <= Dollars(100) THEN "mid-range"
         ELSE IF price <= Dollars(200) THEN "premium"
         ELSE "luxury"
    ELSE "unknown"

PriceTier(price) ==
    IF price > 0
    THEN IF price < Dollars(50) THEN "budget"
         ELSE IF price < Dollars(100) THEN "mid-range"
         ELSE IF price < Dollars(200) THEN "premium"
         ELSE "luxury"
    ELSE "unknown"

DiscountTierExclusive(discount) ==
    IF discount = 0 THEN "none"
    ELSE IF discount < Percent(20) THEN "small"
    ELSE IF discount < Percent(40) THEN "medium"
    ELSE "large"

DiscountTier(discount) ==
    IF discount = 0 THEN "none"
    ELSE IF discount <= Percent(20) THEN "small"
    ELSE IF discount <= Percent(40) THEN "medium"
    ELSE "large"

SavingsAmount(product) ==
    IF /\ TruthyNum(Get(product, "original_price", None))
       /\ TruthyNum(Get(product, "sale_price", None))
    THEN Round2(Val(product["original_price"]) - Val(product["sale_price"]))
    ELSE 0

\* TypeError: None > 0 (line 160), None <= 20 (line 176), len(None) (line 184)
AddDerivedFeaturesRaises(product) ==
    \/ Get(product, "original_price", Some(0)) = None
    \/ Get(product, "discount_percentage", Some(0)) = None
    \/ Get(product, "colors", Some(<<>>)) = None

AddDerivedFeatures(product) ==
    LET price == Val(Get(product, "original_price", Some(0)))
        discount == Val(Get(product, "discount_percentage", Some(0)))
        e1 == Put(product, "price_tier", PriceTier(price))
        e2 == Put(e1, "discount_tier", DiscountTier(discount))
        e3 == Put(e2, "num_colors", Len(Val(Get(product, "colors", Some(<<>>)))))
    IN  Put(e3, "savings_amount", SavingsAmount(product))

----------------------------------------------------------------------------
(* State of one run of clean_data *)

VARIABLES
    raw_data,          \* date -> list of raw product dicts (load_raw_data)
    pc,                \* position of clean_data
    pending,           \* dates sorted(raw_data.items()) has still to yield
    date,              \* date of the running clean_daily_data call
    products,          \* its deduplicated list: positions in raw_data[date]
    i,                 \* position of its loop in products
    cleaned_products,  \* its cleaned_products
    invalid_count,     \* its invalid_count
    all_cleaned_data,  \* date -> cleaned list
    ts_df,             \* rows of the time-series table
    stdout,            \* what the run has printed: <<kind, date, count>>
    error,             \* class of the exception that ended the run, "" if none
    summary,           \* result of create_summary_statistics, <<>> before it
    files,             \* the output directory: file name -> "complete" or "partial"
    df,                \* run_analysis: the table load_processed_data returned
    analysis,          \* run_analysis: name -> result of the analyses that have returned
    raw_files,         \* the mapping as the files of the raw directory hold it
    running            \* date -> locals of a clean_daily_data call under way,
                       \* when the days are cleaned side by side

analysis_vars == <<df, analysis>>

cleaning_vars == <<raw_data, pending, date, products, i, cleaned_products,
                   invalid_count, all_cleaned_data, ts_df, summary, raw_files,
                   running>>

vars == <<raw_data, pc, pending, date, products, i, cleaned_products,
          invalid_count, all_cleaned_data, ts_df, stdout, error, summary,
          files, df, analysis, raw_files, running>>

\* the row create_time_series_data builds from one cleaned product
TimeSeriesRecord(d, product) ==
    [date |-> d,
     sku |-> product["sku"],
     name |-> product["name"],
     category |-> product["category"],
     original_price |-> product["original_price"],
     sale_price |-> product["sale_price"],
     discount_percentage |-> product["discount_percentage"],
     price_tier |-> Get(product, "price_tier", "unknown"),
     discount_tier |-> Get(product, "discount_tier", "none"),
     in_stock |-> Get(product, "in_stock", TRUE),
     savings_amount |-> Get(product, "savings_amount", 0)]

\* the rows of the dates in ds (ascending), each day's products in list order
RECURSIVE TimeSeriesRecords(_, _)
TimeSeriesRecords(all_data, ds) ==
    IF ds = <<>> THEN <<>>
    ELSE [k \in DOMAIN all_data[Head(ds)] |->
              TimeSeriesRecord(Head(ds), all_data[Head(ds)][k])]
         \o TimeSeriesRecords(all_data, Tail(ds))

CreateTimeSeriesDataOncePerSku(all_data) ==
    LET rows == TimeSeriesRecords(all_data, Sorted(DOMAIN all_data))
        FirstDate(r) == \A k \in DOMAIN rows :
                            rows[k]["sku"] = r["sku"] => rows[k]["date"] >= r["date"]
    IN  SelectSeq(rows, FirstDate)

\* mutant: the list of rows is started anew for every date
CreateTimeSeriesDataLastDate(all_data) ==
    LET ds == Sorted(DOMAIN all_data)
    IN  IF ds = <<>> THEN <<>> ELSE TimeSeriesRecords(all_data, <<ds[Len(ds)]>>)

CreateTimeSeriesData(all_data) ==
    TimeSeriesRecords(all_data, Sorted(DOMAIN all_data))

----------------------------------------------------------------------------
(* create_summary_statistics. Rounded means are integers in the unit of the
   column's values divided by the decimals kept: prices in 1/500 dollar,
   percentages rounded to 2 decimals in 1/100 percent. *)

\* the float that is no number: what the mean of an empty selection is. A
\* pair, so that it differs from None and from every Some(x)
NaN == <<"nan", "nan">>

\* a / b rounded to the nearest integer, halves to even (a >= 0, b > 0)
RoundDiv(a, b) ==
    LET n == a \div b
        r == a % b
    IN  IF 2 * r > b \/ (2 * r = b /\ n % 2 = 1) THEN n + 1 ELSE n

RECURSIVE SeqSum(_)
SeqSum(s) == IF s = <<>> THEN 0 ELSE Head(s) + SeqSum(Tail(s))

SeqMin(s) == CHOOSE x \in Range(s) : \A y \in Range(s) : x <= y
SeqMax(s) == CHOOSE x \in Range(s) : \A y \in Range(s) : x >= y

\* the values of s in ascending order, repeated values kept
RECURSIVE SortValues(_)
SortValues(s) ==
    IF s = <<>> THEN <<>>
    ELSE LET k == CHOOSE k \in DOMAIN s : \A j \in DOMAIN s : s[k] <= s[j]
         IN  <<s[k]>> \o SortValues(SubSeq(s, 1, k - 1) \o SubSeq(s, k + 1, Len(s)))

\* Series.unique(): the distinct values in order of first appearance
RECURSIVE Unique(_)
Unique(s) ==
    IF s = <<>> THEN <<>>
    ELSE LET front == Unique(SubSeq(s, 1, Len(s) - 1))
             last == s[Len(s)]
         IN  IF last \in Range(front) THEN front ELSE Append(front, last)

\* the numbers of a column
ColumnValues(rows, column) == [k \in DOMAIN rows |-> Val(rows[k][column])]

\* round(mean, 2) of a price column, in 1/500 dollar
MeanPrice(prices) == 5 * RoundDiv(SeqSum(prices) \div 5, Len(prices))

\* round(median, 2) of a price column, in 1/500 dollar
MedianPrice(prices) ==
    LET sorted == SortValues(prices)
        n == Len(prices)
    IN  IF n % 2 = 1 THEN sorted[(n + 1) \div 2]
        ELSE 5 * RoundDiv((sorted[n \div 2] + sorted[n \div 2 + 1]) \div 5, 2)

\* line 160 of validate_and_clean_prices leaves the int 0, line 102-103 a
\* float: the value of this row's discount_percentage is a Python float
DiscountIsFloat(row) ==
    /\ TruthyNum(row["sale_price"])
    /\ Val(row["sale_price"]) < Val(row["original_price"])

\* dtype of the discount_percentage column of the frame built from the rows
DiscountDtype(rows) ==
    IF \E k \in DOMAIN rows : DiscountIsFloat(rows[k]) THEN "float64" ELSE "int64"

\* lines 307-309, in 1/100 percent
ProductsOnSalePct(rows) ==
    LET on_sale == SelectSeq(ColumnValues(rows, "discount_percentage"),
                             LAMBDA x : x > 0)
    IN  RoundDiv(10000 * Len(on_sale), Len(rows))

\* mutant: the mean is taken over all rows
MeanDiscountOverAllRows(rows) ==
    LET all == ColumnValues(rows, "discount_percentage")
    IN  Some(RoundDiv(10 * SeqSum(all), Len(all)))

\* lines 310-312, in 1/100 percent: the mean of an empty selection is NaN
\* and round(NaN, 2) is NaN
MeanDiscount(rows) ==
    LET on_sale == SelectSeq(ColumnValues(rows, "discount_percentage"),
                             LAMBDA x : x > 0)
    IN  IF on_sale = <<>> THEN NaN
        ELSE Some(RoundDiv(10 * SeqSum(on_sale), Len(on_sale)))

CreateSummaryStatistics(rows) ==
    LET dates == [k \in DOMAIN rows |-> rows[k]["date"]]
        prices == ColumnValues(rows, "original_price")
    IN  [total_products |-> Cardinality({rows[k]["sku"] : k \in DOMAIN rows}),
         total_observations |-> Len(rows),
         date_range |-> [start |-> SeqMin(dates),
                         end |-> SeqMax(dates),
                         num_days |-> Cardinality(Range(dates))],
         categories |-> Unique([k \in DOMAIN rows |-> rows[k]["category"]]),
         price_statistics |->
             [mean_original_price |-> MeanPrice(prices),
              median_original_price |-> MedianPrice(prices),
              min_price |-> SeqMin(prices),
              max_price |-> SeqMax(prices)],
         discount_statistics |->
             [products_on_sale_pct |-> ProductsOnSalePct(rows),
              mean_discount |-> MeanDiscount(rows),
              max_discount |->
                  [value |-> SeqMax(ColumnValues(rows, "discount_percentage")),
                   dtype |-> DiscountDtype(rows)]]]

----------------------------------------------------------------------------
(* Inputs: what load_raw_data can find in the raw directory *)

MaxProducts == 3      \* longest day list of the deduplication inputs
MaxDays == 2          \* number of dates of the multi-day inputs
MaxDayProducts == 2   \* longest day list of the multi-day inputs

SeqsUpTo(S, n) == UNION {[1..k -> S] : k \in 0..n}

\* the dicts that differ from r at key k: one per value, and one without k
Variants(r, k, values) == {Put(r, k, v) : v \in values} \cup {Del(r, k)}

BaseRecord ==
    [sku |-> "A1",
     name |-> Some(<<"c","o","a","t">>),
     category |-> Some(<<"t","o","p","s">>),
     original_price |-> Some(Dollars(80)),
     sale_price |-> Some(Dollars(60)),
     discount_percentage |-> Some(Percent(25)),
     colors |-> Some(<<"Black", "Grey">>),
     in_stock |-> TRUE]

\* prices in 1/500 dollar: null, negative, zero, sub-cent, and both sides of
\* the tier cut points 50, 100, 200
OriginalPrices ==
    {None} \cup
    {Some(x) : x \in {-500, 0, 1, 2, 3, 24995, 24998, 25000, 40000, 49995,
                      50000, 99995, 100000, 150000, 500000}}

SalePrices ==
    {None} \cup
    {Some(x) : x \in {-505, 0, 2, 3, 23960, 24000, 30000, 32000, 40000,
                      150001, 225000, 499995}}

RawDiscounts == {None, Some(0), Some(Percent(25)), Some(999)}

PriceRecords ==
    UNION {UNION {Variants(r2, "discount_percentage", RawDiscounts)
                  : r2 \in Variants(r1, "sale_price", SalePrices)}
           : r1 \in Variants(BaseRecord, "original_price", OriginalPrices)}

Names ==
    {None, Some(<<>>), Some(<<" ">>),
     Some(<<" "," ","c","o","z","y"," ","\t"," ","w","O","O","L"," ">>),
     Some(<<"a","-","b","2","c">>)}

Categories ==
    {None, Some(<<>>), Some(<<" "," ">>),
     Some(<<"O","u","t","e","r","w","e","a","r">>),
     Some(<<" ","T","-","S","h","i","r","t","s","\n">>)}

Colors == {None, Some(<<>>), Some(<<"Black", "Grey">>)}

TextRecords ==
    UNION {UNION {Variants(r2, "colors", Colors)
                  : r2 \in Variants(r1, "category", Categories)}
           : r1 \in Variants([BaseRecord EXCEPT !["sale_price"] = Some(Dollars(450)),
                                                 !["original_price"] = Some(Dollars(300))],
                             "name", Names)}

\* two skus, a valid and an invalid original price, two sale prices
DedupRecords ==
    {[BaseRecord EXCEPT !["sku"] = s, !["original_price"] = o, !["sale_price"] = sp]
     : s \in {"A1", "B2"},
       o \in {None, Some(Dollars(80))},
       sp \in {Some(Dollars(60)), Some(Dollars(450))}}

\* the records of the multi-day inputs: a discounted one and an invalid one
DayRecords ==
    {BaseRecord,
     [BaseRecord EXCEPT !["sku"] = "B2", !["original_price"] = Some(0)]}

\* one day with a record on each price cut point (50.00, 100.00, 200.00),
\* discounted by exactly 20%, 40% and 40.1%
BoundaryDay ==
    <<[BaseRecord EXCEPT !["sku"] = "A1", !["original_price"] = Some(Dollars(50)),
                         !["sale_price"] = Some(Dollars(40))],
      [BaseRecord EXCEPT !["sku"] = "B2", !["original_price"] = Some(Dollars(100)),
                         !["sale_price"] = Some(Dollars(60))],
      [BaseRecord EXCEPT !["sku"] = "C3", !["original_price"] = Some(Dollars(200)),
                         !["sale_price"] = Some(59900)]>>

\* a second product, of another category
OtherRecord ==
    [BaseRecord EXCEPT !["sku"] = "B2",
                       !["category"] = Some(<<"p","a","n","t","s">>),
                       !["original_price"] = Some(Dollars(100))]

\* two days of price history: both skus on both dates in a different order,
\* a discount that ends on the second day, a repeated sku
DiscountHistory ==
    [d \in {1, 2} |->
        IF d = 1
        THEN <<BaseRecord, OtherRecord>>
        ELSE <<[OtherRecord EXCEPT !["sale_price"] = Some(Dollars(100))],
               BaseRecord,
               [BaseRecord EXCEPT !["sale_price"] = Some(Dollars(40))]>>]

\* two days on which nothing is discounted
FullPriceHistory ==
    [d \in {1, 2} |->
        IF d = 1
        THEN <<[BaseRecord EXCEPT !["sale_price"] = Some(Dollars(80))]>>
        ELSE <<[BaseRecord EXCEPT !["sale_price"] = None],
               [OtherRecord EXCEPT !["sale_price"] = Some(Dollars(100))]>>]

Days == 1..MaxDays

RawInputs ==
    {<<>>}
    \cup {[d \in {1} |-> <<r>>] : r \in PriceRecords \cup TextRecords}
    \cup {[d \in {1} |-> l] : l \in SeqsUpTo(DedupRecords, MaxProducts)}
    \cup {[d \in {1} |-> BoundaryDay], DiscountHistory, FullPriceHistory}
    \cup UNION {[D -> SeqsUpTo(DayRecords, MaxDayProducts)]
                : D \in (SUBSET Days) \ {{}}}

Init ==
    /\ raw_data \in RawInputs
    /\ pc = "load"
    /\ pending = <<>>
    /\ date = 0
    /\ products = <<>>
    /\ i = 0
    /\ cleaned_products = <<>>
    /\ invalid_count = 0
    /\ all_cleaned_data = <<>>
    /\ ts_df = <<>>
    /\ stdout = <<>>
    /\ error = ""
    /\ summary = <<>>
    /\ files = <<>>
    /\ df = <<>>
    /\ analysis = <<>>
    /\ raw_files = raw_data
    /\ running = <<>>

----------------------------------------------------------------------------
(* Actions *)

\* mutant: the mapping is not tested for emptiness
LoadRawDataUnchecked ==
    /\ pc = "load"
    /\ pc' = "clean"
    /\ pending' = Sorted(DOMAIN raw_data)
    /\ UNCHANGED <<raw_data, date, products, i, cleaned_products,
                   invalid_count, all_cleaned_data, ts_df, stdout, error,
                   summary, files, analysis_vars,
                   raw_files, running>>

\* clean_data lines 385-389: load, and return at once when nothing was found
LoadRawData ==
    /\ pc = "load"
    /\ IF DOMAIN raw_data = {}
       THEN /\ pc' = "nodata"
            /\ stdout' = Append(stdout, <<"error_no_data", 0, 0>>)
            /\ pending' = <<>>
       ELSE /\ pc' = "clean"
            /\ stdout' = stdout
            /\ pending' = Sorted(DOMAIN raw_data)
    /\ UNCHANGED <<raw_data, date, products, i, cleaned_products,
                   invalid_count, all_cleaned_data, ts_df, error, summary,
                   files, analysis_vars,
                   raw_files, running>>

\* clean_daily_data lines 208-214: entry, remove_duplicates, loop set-up
BeginDay ==
    /\ pc = "clean"
    /\ pending # <<>>
    /\ LET d == Head(pending)
           unique == RemoveDuplicates(raw_data[d])
           removed == Len(raw_data[d]) - Len(unique)
       IN  /\ date' = d
           /\ products' = unique
           /\ stdout' = IF removed > 0
                        THEN Append(stdout, <<"removed_duplicates", d, removed>>)
                        ELSE stdout
    /\ pending' = Tail(pending)
    /\ i' = 1
    /\ cleaned_products' = <<>>
    /\ invalid_count' = 0
    /\ pc' = "day"
    /\ UNCHANGED <<raw_data, all_cleaned_data, ts_df, error, summary, files,
                   analysis_vars,
                   raw_files, running>>

\* mutant: validate_and_clean_prices works on the raw dict itself, not on
\* a copy
CleanProductInPlace ==
    /\ pc = "day"
    /\ i <= Len(products)
    /\ LET idx == products[i]
           p0 == raw_data[date][idx]
           p2 == Put(Put(p0, "name", CleanProductName(Get(p0, "name", Some(<<>>)))),
                     "category",
                     StandardizeCategory(Get(p0, "category", Some(<<>>))))
           raises == \/ ValidateAndCleanPricesRaises(p2)
                     \/ /\ Get(ValidateAndCleanPrices(p2), "is_valid", TRUE)
                        /\ AddDerivedFeaturesRaises(ValidateAndCleanPrices(p2))
       IN  IF raises
           THEN /\ pc' = "failed"
                /\ error' = "TypeError"
                /\ UNCHANGED <<raw_data, i, cleaned_products, invalid_count>>
           ELSE LET p3 == ValidateAndCleanPrices(p2)
                    valid == Get(p3, "is_valid", TRUE)
                IN  /\ raw_data' = [raw_data EXCEPT ![date][idx] = p3]
                    /\ i' = i + 1
                    /\ cleaned_products' =
                           IF valid
                           THEN Append(cleaned_products,
                                       Del(AddDerivedFeatures(p3), "is_valid"))
                           ELSE cleaned_products
                    /\ invalid_count' = IF valid THEN invalid_count
                                        ELSE invalid_count + 1
                    /\ UNCHANGED <<pc, error>>
    /\ UNCHANGED <<pending, date, products, all_cleaned_data, ts_df, stdout,
                   summary, files, analysis_vars, raw_files, running>>

\* clean_daily_data lines 216-237: one iteration of the loop. Name and
\* category are assigned on the raw dict itself; validate_and_clean_prices
\* and add_derived_features work on copies. An exception ends the run.
CleanProduct ==
    /\ pc = "day"
    /\ i <= Len(products)
    /\ LET idx == products[i]
           p0 == raw_data[date][idx]
           p1 == Put(p0, "name", CleanProductName(Get(p0, "name", Some(<<>>))))
           p2 == Put(p1, "category",
                     StandardizeCategory(Get(p1, "category", Some(<<>>))))
       IN  /\ raw_data' = [raw_data EXCEPT ![date][idx] = p2]
           /\ IF ValidateAndCleanPricesRaises(p2)
              THEN /\ pc' = "failed"
                   /\ error' = ValidateAndCleanPricesError(p2)
                   /\ UNCHANGED <<i, cleaned_products, invalid_count>>
              ELSE LET p3 == ValidateAndCleanPrices(p2)
                   IN  IF ~Get(p3, "is_valid", TRUE)
                       THEN /\ invalid_count' = invalid_count + 1
                            /\ i' = i + 1
                            /\ UNCHANGED <<pc, cleaned_products, error>>
                       ELSE IF AddDerivedFeaturesRaises(p3)
                       THEN /\ pc' = "failed"
                            /\ error' = "TypeError"
                            /\ UNCHANGED <<i, cleaned_products, invalid_count>>
                       ELSE /\ cleaned_products' =
                                   Append(cleaned_products,
                                          Del(AddDerivedFeatures(p3), "is_valid"))
                            /\ i' = i + 1
                            /\ UNCHANGED <<pc, invalid_count, error>>
    /\ UNCHANGED <<pending, date, products, all_cleaned_data, ts_df, stdout,
                   summary, files, analysis_vars,
                   raw_files, running>>

\* clean_daily_data lines 239-244 and clean_data line 395
EndDay ==
    /\ pc = "day"
    /\ i > Len(products)
    /\ stdout' = (IF invalid_count > 0
                  THEN Append(stdout, <<"removed_invalid", date, invalid_count>>)
                  ELSE stdout)
                 \o << <<"cleaned_products", date, Len(cleaned_products)>> >>
    /\ all_cleaned_data' = Put(all_cleaned_data, date, cleaned_products)
    /\ pc' = "clean"
    /\ UNCHANGED <<raw_data, pending, date, products, i, cleaned_products,
                   invalid_count, ts_df, error, summary, files, analysis_vars,
                   raw_files, running>>

\* clean_data line 399: create_time_series_data. With no record at all the
\* frame has no "date" column and line 277 raises KeyError.
CreateTimeSeries ==
    /\ pc = "clean"
    /\ pending = <<>>
    /\ LET records == CreateTimeSeriesData(all_cleaned_data)
       IN  IF records = <<>>
           THEN /\ pc' = "failed"
                /\ error' = "KeyError"
                /\ ts_df' = ts_df
           ELSE /\ pc' = "assembled"
                /\ error' = error
                /\ ts_df' = records
    /\ UNCHANGED <<raw_data, pending, date, products, i, cleaned_products,
                   invalid_count, all_cleaned_data, stdout, summary, files,
                   analysis_vars,
                   raw_files, running>>

\* clean_data line 403
SummarizeTimeSeries ==
    /\ pc = "assembled"
    /\ summary' = CreateSummaryStatistics(ts_df)
    /\ pc' = "summarized"
    /\ UNCHANGED <<raw_data, pending, date, products, i, cleaned_products,
                   invalid_count, all_cleaned_data, ts_df, stdout, error, files,
                   analysis_vars,
                   raw_files, running>>

\* save_cleaned_data lines 339-342: cleaned_products.json
SaveCleanedProducts ==
    /\ pc = "summarized"
    /\ files' = Put(files, "cleaned_products.json", "complete")
    /\ pc' = "saved_products"
    /\ UNCHANGED <<cleaning_vars, stdout, error, analysis_vars>>

\* save_cleaned_data lines 345-347: price_time_series.csv
SaveTimeSeries ==
    /\ pc = "saved_products"
    /\ files' = Put(files, "price_time_series.csv", "complete")
    /\ pc' = "saved_time_series"
    /\ UNCHANGED <<cleaning_vars, stdout, error, analysis_vars>>

\* save_cleaned_data lines 350-353: summary_statistics.json. open(.., 'w')
\* creates the file and json.dump writes it piece by piece; max_discount is
\* the last value and a numpy int64 is not JSON serializable (TypeError).
SaveSummaryStatistics ==
    /\ pc = "saved_time_series"
    /\ IF summary["discount_statistics"]["max_discount"]["dtype"] = "int64"
       THEN /\ files' = Put(files, "summary_statistics.json", "partial")
            /\ pc' = "failed"
            /\ error' = "TypeError"
       ELSE /\ files' = Put(files, "summary_statistics.json", "complete")
            /\ pc' = "saved_summary"
            /\ error' = error
    /\ UNCHANGED <<cleaning_vars, stdout, analysis_vars>>

\* save_cleaned_data lines 356-369: category_daily_stats.csv
SaveCategoryStats ==
    /\ pc = "saved_summary"
    /\ files' = Put(files, "category_daily_stats.csv", "complete")
    /\ pc' = "saved"
    /\ UNCHANGED <<cleaning_vars, stdout, error, analysis_vars>>

\* the file the write at this position of save_cleaned_data produces
FileOfStep ==
    [summarized |-> "cleaned_products.json",
     saved_products |-> "price_time_series.csv",
     saved_time_series |-> "summary_statistics.json",
     saved_summary |-> "category_daily_stats.csv"]

\* one of the four writes raises OSError (no permission, disk full): before
\* the file exists, or with a part of it written
WriteFails ==
    /\ pc \in DOMAIN FileOfStep
    /\ \E created \in BOOLEAN :
          files' = IF created THEN Put(files, FileOfStep[pc], "partial") ELSE files
    /\ pc' = "failed"
    /\ error' = "OSError"
    /\ UNCHANGED <<cleaning_vars, stdout, analysis_vars>>

\* clean_data lines 408-419: the closing summary
PrintSummary ==
    /\ pc = "saved"
    /\ stdout' = Append(stdout, <<"summary", summary["total_products"],
                                  summary["total_observations"]>>)
    /\ pc' = "done"
    /\ UNCHANGED <<cleaning_vars, error, files, analysis_vars>>

Next ==
    \/ LoadRawData
    \/ BeginDay
    \/ CleanProduct
    \/ EndDay
    \/ CreateTimeSeries
    \/ SummarizeTimeSeries
    \/ SaveCleanedProducts
    \/ SaveTimeSeries
    \/ SaveSummaryStatistics
    \/ SaveCategoryStats
    \/ WriteFails
    \/ PrintSummary

Spec == Init /\ [][Next]_vars

----------------------------------------------------------------------------
(* clean_daily_data as a function of one day's list, for applying it to a
   list that is not the raw data of the run *)

\* lines 218-221: the name and the category of one product
NameAndCategoryCleaned(product) ==
    LET p1 == Put(product, "name",
                  CleanProductName(Get(product, "name", Some(<<>>))))
    IN  Put(p1, "category", StandardizeCategory(Get(p1, "category", Some(<<>>))))

\* lines 224-235 raise for this product
CleanOneRaises(product) ==
    LET p2 == NameAndCategoryCleaned(product)
    IN  \/ ValidateAndCleanPricesRaises(p2)
        \/ /\ Get(ValidateAndCleanPrices(p2), "is_valid", TRUE)
           /\ AddDerivedFeaturesRaises(ValidateAndCleanPrices(p2))

\* lines 216-237 for one product: what the loop appends, nothing or one record
CleanOne(product) ==
    LET p3 == ValidateAndCleanPrices(NameAndCategoryCleaned(product))
    IN  IF ~Get(p3, "is_valid", TRUE) THEN <<>>
        ELSE <<Del(AddDerivedFeatures(p3), "is_valid")>>

RECURSIVE CleanDailyDataLoop(_, _)
CleanDailyDataLoop(products_, unique) ==
    IF unique = <<>> THEN <<>>
    ELSE CleanOne(products_[Head(unique)])
         \o CleanDailyDataLoop(products_, Tail(unique))

CleanDailyDataRaises(products_) ==
    \E k \in Range(RemoveDuplicates(products_)) : CleanOneRaises(products_[k])

CleanDailyData(products_) ==
    CleanDailyDataLoop(products_, RemoveDuplicates(products_))

----------------------------------------------------------------------------
(* run_analysis: a separate program that starts on the output directory a
   run of clean_data has left. Its inputs are histories of two products
   over the days, each product absent from a day or seen at one of three
   price levels, besides the day of cut points and an empty mapping. *)

\* sale prices in twentieths of the original price: 40% off, 25% off, none
SaleLevels == {12, 15, 20}

\* what one day can hold of one product: nothing, or it at one sale level
Sightings(record) ==
    {<<>>} \cup
    {<<[record EXCEPT !["sale_price"] =
            Some((Val(record["original_price"]) \div 20) * level)]>>
     : level \in SaleLevels}

DayLists == {a \o b : a \in Sightings(BaseRecord), b \in Sightings(OtherRecord)}

\* a record whose category is blank: cleaned to '', read back as missing
BlankCategoryDay ==
    <<[BaseRecord EXCEPT !["category"] = Some(<<" ", " ">>)], OtherRecord>>

\* a third product, in the category of the first, at a deeper discount
ThirdRecord ==
    [BaseRecord EXCEPT !["sku"] = "C3",
                       !["original_price"] = Some(Dollars(100)),
                       !["sale_price"] = Some(Dollars(60))]

\* two products of one category on every day, each at a constant discount
SameCategoryDays == [d \in Days |-> <<BaseRecord, ThirdRecord>>]

\* one product whose discount goes down by one point a day, from 40 percent
DailyDecline(dates) ==
    [d \in dates |-> <<[OtherRecord EXCEPT !["sale_price"] = Some(Dollars(59 + d))]>>]

\* three products on two days: a discount that moves from 25 to 30 percent,
\* one that moves from 40 to 25 percent (by the first day's price validation
\* the raw sale price), and one that stays at 40 percent
StableDiscountDays ==
    [d \in {1, 2} |->
        IF d = 1
        THEN <<BaseRecord,
               [OtherRecord EXCEPT !["sale_price"] = Some(Dollars(60))],
               ThirdRecord>>
        ELSE <<[BaseRecord EXCEPT !["sale_price"] = Some(Dollars(56))],
               [OtherRecord EXCEPT !["sale_price"] = Some(Dollars(75))],
               ThirdRecord>>]

AnalysisInputs ==
    {<<>>, [d \in {1} |-> BoundaryDay], [d \in {1} |-> BlankCategoryDay],
     SameCategoryDays, DailyDecline(1..5), DailyDecline({1, 2, 4}),
     StableDiscountDays}
    \cup [Days -> DayLists]

\* clean_data lines 391-395 as a function of the mapping
CleanAllDays(raw) == [d \in DOMAIN raw |-> CleanDailyData(raw[d])]

\* the directory a run of clean_data on this mapping leaves when no write
\* meets an OSError: nothing when the run ends before save_cleaned_data, the
\* first two files and a part of the third when the summary cannot be
\* written, else the four files
DirectoryAfterCleanData(raw) ==
    LET table == CreateTimeSeriesData(CleanAllDays(raw))
    IN  IF table = <<>> THEN <<>>
        ELSE IF DiscountDtype(table) = "int64"
        THEN [f \in {"cleaned_products.json", "price_time_series.csv",
                     "summary_statistics.json"} |->
                 IF f = "summary_statistics.json" THEN "partial" ELSE "complete"]
        ELSE [f \in {FileOfStep[step] : step \in DOMAIN FileOfStep} |-> "complete"]

InitAnalysis ==
    /\ raw_data \in AnalysisInputs
    /\ all_cleaned_data = CleanAllDays(raw_data)
    /\ ts_df = CreateTimeSeriesData(all_cleaned_data)
    /\ summary = IF ts_df = <<>> THEN <<>> ELSE CreateSummaryStatistics(ts_df)
    /\ files = DirectoryAfterCleanData(raw_data)
    /\ pc = "analysis"
    /\ pending = <<>>
    /\ date = 0
    /\ products = <<>>
    /\ i = 0
    /\ cleaned_products = <<>>
    /\ invalid_count = 0
    /\ stdout = <<>>
    /\ error = ""
    /\ df = <<>>
    /\ analysis = <<>>
    /\ raw_files = raw_data
    /\ running = <<>>

\* read_csv on a text cell: the empty string is a missing value
ReadCsvText(text) == IF text = Some(<<>>) THEN None ELSE text

\* the frame read_csv builds from the rows to_csv wrote: numbers, booleans
\* and dates come back as written, a None as missing
ReadCsv(rows) ==
    [k \in DOMAIN rows |->
        [rows[k] EXCEPT !["name"] = ReadCsvText(@),
                        !["category"] = ReadCsvText(@)]]

----------------------------------------------------------------------------
(* analyze_category_discounts. Percentages rounded to 2 decimals are
   integers in 1/100 percent, amounts rounded to 2 decimals in 1/500
   dollar. *)

Abs(x) == IF x < 0 THEN -x ELSE x

\* the largest r in lo..hi with r * r <= n
RECURSIVE SqrtSearch(_, _, _)
SqrtSearch(n, lo, hi) ==
    IF lo = hi THEN lo
    ELSE LET mid == (lo + hi + 1) \div 2
         IN  IF mid * mid <= n THEN SqrtSearch(n, mid, hi)
             ELSE SqrtSearch(n, lo, mid - 1)

\* the square root of a / b rounded to the nearest integer (a >= 0, b > 0)
RoundSqrt(a, b) == (SqrtSearch((4 * a) \div b, 0, 20000) + 1) \div 2

\* the order of str < str on the characters of cleaned categories
CharOrder == <<" ", "-">> \o LowerCase

RECURSIVE TextBefore(_, _)
TextBefore(a, b) ==
    IF b = <<>> THEN FALSE
    ELSE IF a = <<>> THEN TRUE
    ELSE IF Head(a) = Head(b) THEN TextBefore(Tail(a), Tail(b))
    ELSE IndexOf(CharOrder, Head(a)) < IndexOf(CharOrder, Head(b))

\* the texts of a finite set in ascending order
RECURSIVE SortedTexts(_)
SortedTexts(S) ==
    IF S = {} THEN <<>>
    ELSE LET m == CHOOSE x \in S : \A y \in S \ {x} : TextBefore(x, y)
         IN  <<m>> \o SortedTexts(S \ {m})

\* a stable sort_values(ascending=False): the positions of the values in
\* descending order of value, equal values in ascending order of position
RECURSIVE DescendingOrder(_, _)
DescendingOrder(values, S) ==
    IF S = {} THEN <<>>
    ELSE LET m == CHOOSE x \in S : \A y \in S \ {x} :
                      \/ values[x] > values[y]
                      \/ values[x] = values[y] /\ x < y
         IN  <<m>> \o DescendingOrder(values, S \ {m})

\* groupby('category'): the keys in ascending order, rows whose category is
\* missing left out
CategoryKeys(rows) ==
    SortedTexts({Val(rows[k]["category"]) :
                    k \in {j \in DOMAIN rows : rows[j]["category"] # None}})

\* the rows of one category, in table order
CategoryRows(rows, category) ==
    SelectSeq(rows, LAMBDA r : r["category"] = Some(category))

\* sum of (x - mean)^2 over the values, times their number
SquaredDeviations(xs) ==
    Len(xs) * SeqSum([k \in DOMAIN xs |-> xs[k] * xs[k]]) - SeqSum(xs) * SeqSum(xs)

\* round(std, 2) with ddof = 1 of discounts given in 1/10 percent; NaN for
\* a single value
RoundedStd(xs) ==
    IF Len(xs) < 2 THEN NaN
    ELSE Some(RoundSqrt(100 * SquaredDeviations(xs), Len(xs) * (Len(xs) - 1)))

\* round(median, 2) of discounts given in 1/10 percent
MedianDiscount(xs) ==
    LET sorted == SortValues(xs)
        n == Len(xs)
    IN  IF n % 2 = 1 THEN 10 * sorted[(n + 1) \div 2]
        ELSE 5 * (sorted[n \div 2] + sorted[n \div 2 + 1])

\* x.diff().abs(): the differences of consecutive values, without the first
\* (NaN) entry
AbsDiffs(xs) == [k \in 1..(Len(xs) - 1) |-> Abs(xs[k + 1] - xs[k])]

\* the daily mean discounts of one category in date order, as fractions
\* <<sum, count>>
CategoryDailyDiscounts(rows) ==
    LET dates == Sorted({rows[k]["date"] : k \in DOMAIN rows})
    IN  [n \in DOMAIN dates |->
            LET day == SelectSeq(rows, LAMBDA r : r["date"] = dates[n])
            IN  <<SeqSum(ColumnValues(day, "discount_percentage")), Len(day)>>]

\* the product of the numbers
RECURSIVE SeqProduct(_)
SeqProduct(xs) == IF xs = <<>> THEN 1 ELSE Head(xs) * SeqProduct(Tail(xs))

\* the mean absolute difference of the category's daily mean discount on
\* consecutive days of its own date-ordered sequence, rounded to 2
\* decimals; NaN for a single day
DayOverDayVolatility(rows) ==
    LET daily == CategoryDailyDiscounts(rows)
        scale == SeqProduct([n \in DOMAIN daily |-> daily[n][2]])
        xs == [n \in DOMAIN daily |-> daily[n][1] * (scale \div daily[n][2])]
    IN  IF Len(xs) < 2 THEN NaN
        ELSE Some(RoundDiv(10 * SeqSum(AbsDiffs(xs)), scale * (Len(xs) - 1)))

\* lines 69-71: x.diff().abs().mean() over the category's rows in table
\* order, rounded to 2 decimals; NaN for a single row
DiscountVolatility(rows) ==
    LET xs == ColumnValues(rows, "discount_percentage")
    IN  IF Len(xs) < 2 THEN NaN
        ELSE Some(RoundDiv(10 * SeqSum(AbsDiffs(xs)), Len(xs) - 1))

\* mutant: the mean over the distinct discounts of the category
CategoryMeanDiscountOfDistinct(rows) ==
    LET xs == Unique(ColumnValues(rows, "discount_percentage"))
    IN  RoundDiv(10 * SeqSum(xs), Len(xs))

\* line 52: mean of discount_percentage over all rows of the category
CategoryMeanDiscount(rows) ==
    LET xs == ColumnValues(rows, "discount_percentage")
    IN  RoundDiv(10 * SeqSum(xs), Len(xs))

\* lines 51-72 for one category
CategoryStatistics(category, rows) ==
    LET discounts == ColumnValues(rows, "discount_percentage")
        savings == [k \in DOMAIN rows |-> rows[k]["savings_amount"]]
    IN  [category |-> category,
         avg_discount |-> CategoryMeanDiscount(rows),
         median_discount |-> MedianDiscount(discounts),
         max_discount |-> 10 * SeqMax(discounts),
         discount_std |-> RoundedStd(discounts),
         unique_products |-> Cardinality({rows[k]["sku"] : k \in DOMAIN rows}),
         avg_savings |-> 5 * RoundDiv(SeqSum(savings) \div 5, Len(rows)),
         on_sale_pct |-> ProductsOnSalePct(rows),
         discount_volatility |-> DiscountVolatility(rows)]

\* lines 51-88: one row per category, by descending avg_discount, categories
\* of equal avg_discount in key order
AnalyzeCategoryDiscountsResult(rows) ==
    LET keys == CategoryKeys(rows)
        stat == [n \in DOMAIN keys |->
                    CategoryStatistics(keys[n], CategoryRows(rows, keys[n]))]
        order == DescendingOrder([n \in DOMAIN keys |-> stat[n]["avg_discount"]],
                                 DOMAIN keys)
    IN  [n \in DOMAIN order |-> stat[order[n]]]

\* load_processed_data lines 19-31
LoadProcessedData ==
    /\ pc = "analysis"
    /\ IF \/ "price_time_series.csv" \notin DOMAIN files
          \/ "summary_statistics.json" \notin DOMAIN files
       THEN /\ pc' = "failed"
            /\ error' = "FileNotFoundError"
            /\ UNCHANGED <<df, stdout>>
       ELSE IF files["summary_statistics.json"] # "complete"
       THEN /\ pc' = "failed"
            /\ error' = "JSONDecodeError"
            /\ df' = ReadCsv(ts_df)
            /\ stdout' = stdout
       ELSE /\ pc' = "loaded"
            /\ error' = error
            /\ df' = ReadCsv(ts_df)
            /\ stdout' = Append(stdout, <<"loaded", Len(ts_df),
                                Cardinality({ts_df[k]["date"] : k \in DOMAIN ts_df})>>)
    /\ UNCHANGED <<cleaning_vars, files, analysis>>

\* run_analysis line 349
AnalyzeCategoryDiscounts ==
    /\ pc = "loaded"
    /\ analysis' = Put(analysis, "category_analysis",
                       AnalyzeCategoryDiscountsResult(df))
    /\ pc' = "analyzed_categories"
    /\ UNCHANGED <<cleaning_vars, stdout, error, files, df>>

----------------------------------------------------------------------------
(* analyze_price_trends. The daily means are not rounded by the code: a
   mean is the fraction <<sum, count>>. *)

\* mean() of a column that may hold missing values: they are skipped, and the
\* mean of nothing is NaN
FractionMean(cells) ==
    LET present == SelectSeq(cells, LAMBDA c : c # None)
    IN  IF present = <<>> THEN NaN
        ELSE Some(<<SeqSum([k \in DOMAIN present |-> Val(present[k])]), Len(present)>>)

\* diff() of two means: NaN - x and x - NaN are NaN
FractionDiff(later, earlier) ==
    IF later = NaN \/ earlier = NaN THEN NaN
    ELSE Some(<<Val(later)[1] * Val(earlier)[2] - Val(earlier)[1] * Val(later)[2],
                Val(later)[2] * Val(earlier)[2]>>)

\* lines 108-121 and 142: one row per date in ascending order
DailyStats(rows) ==
    LET dates == Sorted({rows[k]["date"] : k \in DOMAIN rows})
        Day(n) == SelectSeq(rows, LAMBDA r : r["date"] = dates[n])
        Column(n, c) == [k \in DOMAIN Day(n) |-> Day(n)[k][c]]
        avg_discount == [n \in DOMAIN dates |-> FractionMean(Column(n, "discount_percentage"))]
        avg_sale_price == [n \in DOMAIN dates |-> FractionMean(Column(n, "sale_price"))]
    IN  [n \in DOMAIN dates |->
            [date |-> dates[n],
             avg_original_price |-> FractionMean(Column(n, "original_price")),
             avg_sale_price |-> avg_sale_price[n],
             avg_discount |-> avg_discount[n],
             total_savings |-> SeqSum(Column(n, "savings_amount")),
             product_count |-> Len(Day(n)),
             discount_change |-> IF n = 1 THEN NaN
                                 ELSE FractionDiff(avg_discount[n], avg_discount[n - 1]),
             price_change |-> IF n = 1 THEN NaN
                              ELSE FractionDiff(avg_sale_price[n], avg_sale_price[n - 1]),
             day_of_week |-> dates[n] % 7]]

RECURSIVE Gcd(_, _)
Gcd(a, b) == IF b = 0 THEN a ELSE Gcd(b, a % b)

\* the least common multiple of the numbers
RECURSIVE Lcm(_)
Lcm(xs) ==
    IF xs = <<>> THEN 1
    ELSE LET rest == Lcm(Tail(xs)) IN (Head(xs) * rest) \div Gcd(Head(xs), rest)

\* a / b rounded to the nearest integer, halves to even (b > 0)
SignedRoundDiv(a, b) == IF a < 0 THEN -RoundDiv(-a, b) ELSE RoundDiv(a, b)

\* a / b to 3 decimals in thousandths, by long division (0 <= a <= b, b > 0)
Thousandths(a, b) ==
    LET d1 == (10 * (a % b)) \div b
        r1 == (10 * (a % b)) % b
        d2 == (10 * r1) \div b
        r2 == (10 * r1) % b
        d3 == (10 * r2) \div b
        r3 == (10 * r2) % b
        n == 1000 * (a \div b) + 100 * d1 + 10 * d2 + d3
    IN  IF 2 * r3 > b \/ (2 * r3 = b /\ n % 2 = 1) THEN n + 1 ELSE n

\* mutant: the position of the date in the table of days
DayIndexByPosition(daily) == [n \in DOMAIN daily |-> n - 1]

\* line 124: the days between each date and the first date
DayIndex(daily) == [n \in DOMAIN daily |-> daily[n]["date"] - daily[1]["date"]]

\* the sums of squares linregress works with (line 125), each times the
\* number of dates: x the day index, y the daily mean discount in 1/10
\* percent times scale
RegressionSums(daily) ==
    LET n == Len(daily)
        x == DayIndex(daily)
        scale == Lcm([k \in DOMAIN daily |-> daily[k]["product_count"]])
        y == [k \in DOMAIN daily |->
                 Val(daily[k]["avg_discount"])[1]
                     * (scale \div Val(daily[k]["avg_discount"])[2])]
        Dot(u, v) == SeqSum([k \in DOMAIN daily |-> u[k] * v[k]])
    IN  [scale |-> scale,
         xx |-> n * Dot(x, x) - SeqSum(x) * SeqSum(x),
         xy |-> n * Dot(x, y) - SeqSum(x) * SeqSum(y),
         yy |-> n * Dot(y, y) - SeqSum(y) * SeqSum(y)]

\* lines 138-139: f"{slope:.3f}" in 1/1000 percent per day and
\* f"{r_value**2:.3f}" in thousandths; linregress takes r = 0 when y is
\* constant
TrendLine(daily) ==
    LET sums == RegressionSums(daily)
    IN  <<"trend",
          SignedRoundDiv(100 * sums["xy"], sums["scale"] * sums["xx"]),
          IF sums["yy"] = 0 THEN 0
          ELSE Thousandths(sums["xy"] * sums["xy"], sums["xx"] * sums["yy"])>>

\* run_analysis line 350. With one date all x values of linregress (line
\* 125) are identical: scipy raises ValueError, older releases return NaN
\* for slope and r.
AnalyzePriceTrends ==
    /\ pc = "analyzed_categories"
    /\ \E raises \in {Cardinality({df[k]["date"] : k \in DOMAIN df}) = 1, FALSE} :
          IF raises
          THEN /\ pc' = "failed"
               /\ error' = "ValueError"
               /\ analysis' = analysis
               /\ stdout' = stdout
          ELSE /\ pc' = "analyzed_trends"
               /\ error' = error
               /\ analysis' = Put(analysis, "daily_stats", DailyStats(df))
               /\ stdout' = Append(stdout,
                                   IF Len(DailyStats(df)) = 1
                                   THEN <<"trend_nan", 0, 0>>
                                   ELSE TrendLine(DailyStats(df)))
    /\ UNCHANGED <<cleaning_vars, files, df>>

----------------------------------------------------------------------------
(* analyze_price_patterns. Of the lines it prints the model keeps those of
   step 6; the correlation coefficient of step 3 is left out of the
   dictionary, no step depends on it. *)

\* the mean of the numbers as a fraction <<sum, count>>
Fraction(xs) == <<SeqSum(xs), Len(xs)>>

\* a < b for fractions with positive denominators
FractionLess(a, b) == a[1] * b[2] < b[1] * a[2]

\* idxmax: the first position that holds the largest fraction
IdxMax(fractions) ==
    CHOOSE n \in DOMAIN fractions :
        /\ \A m \in DOMAIN fractions : ~FractionLess(fractions[n], fractions[m])
        /\ \A m \in 1..(n - 1) : FractionLess(fractions[m], fractions[n])

\* lines 172-181
BestDealCategory(rows) ==
    LET keys == CategoryKeys(rows)
        Savings(n) == [k \in DOMAIN CategoryRows(rows, keys[n]) |->
                          CategoryRows(rows, keys[n])[k]["savings_amount"]]
        best == IdxMax([n \in DOMAIN keys |-> Fraction(Savings(n))])
    IN  [category |-> keys[best],
         avg_savings |-> Fraction(Savings(best)),
         avg_discount |-> Fraction(ColumnValues(CategoryRows(rows, keys[best]),
                                                "discount_percentage"))]

\* lines 187-192: the dictionary of the tiers that occur
PriceTierAnalysis(rows) ==
    LET tiers == {rows[k]["price_tier"] : k \in DOMAIN rows}
        TierRows(t) == SelectSeq(rows, LAMBDA r : r["price_tier"] = t)
    IN  [t \in tiers |->
            [avg_discount |-> Fraction(ColumnValues(TierRows(t), "discount_percentage")),
             count |-> Len(TierRows(t)),
             avg_savings |-> Fraction([k \in DOMAIN TierRows(t) |->
                                          TierRows(t)[k]["savings_amount"]])]]

\* lines 210-211: the share of each discount tier among the discounted rows
DiscountDistribution(rows) ==
    LET on_sale == SelectSeq(rows, LAMBDA r : Val(r["discount_percentage"]) > 0)
        tiers == {on_sale[k]["discount_tier"] : k \in DOMAIN on_sale}
    IN  [t \in tiers |->
            <<Len(SelectSeq(on_sale, LAMBDA r : r["discount_tier"] = t)), Len(on_sale)>>]

\* the sku strings of the model in ascending order
SkuOrder == <<"A1", "B2", "C3">>

\* groupby('sku'): the keys in ascending order
SkuKeys(rows) ==
    SelectSeq(SkuOrder, LAMBDA sku : \E k \in DOMAIN rows : rows[k]["sku"] = sku)

\* 'first': the first value of the column that is not missing
FirstValue(rows, column) ==
    LET present == SelectSeq(rows, LAMBDA r : r[column] # None)
    IN  IF present = <<>> THEN None ELSE present[1][column]

\* mutant: the standard deviation of the population (ddof = 0), which is 0
\* for a single observation
DiscountVariancePopulation(xs) ==
    Some(<<SquaredDeviations(xs), Len(xs) * Len(xs)>>)

\* 'std' squared, as a fraction in (1/10 percent) squared: the sample
\* variance (ddof = 1), NaN for a single observation
DiscountVariance(xs) ==
    IF Len(xs) < 2 THEN NaN
    ELSE Some(<<SquaredDeviations(xs), Len(xs) * (Len(xs) - 1)>>)

\* lines 228-233: one row per sku
ConsistentSales(rows) ==
    LET keys == SkuKeys(rows)
        SkuRows(n) == SelectSeq(rows, LAMBDA r : r["sku"] = keys[n])
    IN  [n \in DOMAIN keys |->
            LET xs == ColumnValues(SkuRows(n), "discount_percentage")
            IN  [sku |-> keys[n],
                 avg_discount |-> Fraction(xs),
                 discount_variance |-> DiscountVariance(xs),
                 min_discount |-> SeqMin(xs),
                 name |-> FirstValue(SkuRows(n), "name"),
                 category |-> FirstValue(SkuRows(n), "category")]]

\* mutant: a product that was at full price on some day passes
MinDiscountTestInclusive(row) == row["min_discount"] >= 0

\* line 237: min_discount > 0
MinDiscountTest(row) == row["min_discount"] > 0

\* line 238: discount_std < 5, false for NaN
DiscountStdTest(row) ==
    /\ row["discount_variance"] # NaN
    /\ Val(row["discount_variance"])[1] < 2500 * Val(row["discount_variance"])[2]

\* lines 236-239: the rows that pass both tests, by descending avg_discount
AlwaysOnSale(rows) ==
    LET sales == ConsistentSales(rows)
        scale == Lcm([n \in DOMAIN sales |-> sales[n]["avg_discount"][2]])
        order == DescendingOrder(
                     [n \in DOMAIN sales |->
                         sales[n]["avg_discount"][1]
                             * (scale \div sales[n]["avg_discount"][2])],
                     {n \in DOMAIN sales :
                         MinDiscountTest(sales[n]) /\ DiscountStdTest(sales[n])})
    IN  [n \in DOMAIN order |-> sales[order[n]]]

\* lines 243-247: the count, and the first five products with their
\* discount as f"{avg_discount:.0f}"
StableDiscountLines(rows) ==
    LET sales == AlwaysOnSale(rows)
    IN  <<<<"consistently_discounted", Len(sales), 0>>>>
        \o [n \in 1..(IF Len(sales) < 5 THEN Len(sales) ELSE 5) |->
               <<sales[n]["sku"], n,
                 RoundDiv(sales[n]["avg_discount"][1], 10 * sales[n]["avg_discount"][2])>>]

\* lines 170-251
AnalyzePricePatternsResult(rows) ==
    [best_deal_category |-> BestDealCategory(rows),
     price_tier_analysis |-> PriceTierAnalysis(rows),
     discount_distribution |-> DiscountDistribution(rows),
     consistently_discounted |-> Len(AlwaysOnSale(rows))]

\* run_analysis line 351. unique() at line 213 yields the missing category
\* too, groupby has dropped it, and idxmax of nothing raises ValueError
\* (line 215; line 174 when every category is missing).
AnalyzePricePatterns ==
    /\ pc = "analyzed_trends"
    /\ IF \E k \in DOMAIN df : df[k]["category"] = None
       THEN /\ pc' = "failed"
            /\ error' = "ValueError"
            /\ analysis' = analysis
            /\ stdout' = stdout
       ELSE /\ pc' = "analyzed_patterns"
            /\ error' = error
            /\ analysis' = Put(analysis, "patterns", AnalyzePricePatternsResult(df))
            /\ stdout' = stdout \o StableDiscountLines(df)
    /\ UNCHANGED <<cleaning_vars, files, df>>

\* run_analysis line 352. The matrix is returned for every table (a constant
\* column gives NaN entries); its coefficients are not computed here.
AnalyzeCorrelationMatrix ==
    /\ pc = "analyzed_patterns"
    /\ analysis' = Put(analysis, "corr_matrix", <<>>)
    /\ pc' = "analyzed"
    /\ UNCHANGED <<cleaning_vars, stdout, error, files, df>>

\* the file the write at this position of generate_analysis_report produces
ReportOfStep ==
    [analyzed |-> "category_analysis.csv",
     saved_category_analysis |-> "daily_price_trends.csv",
     saved_daily_trends |-> "correlation_matrix.csv",
     saved_correlation |-> "consumer_patterns.json"]

\* generate_analysis_report lines 297-300
SaveCategoryAnalysis ==
    /\ pc = "analyzed"
    /\ files' = Put(files, "category_analysis.csv", "complete")
    /\ pc' = "saved_category_analysis"
    /\ UNCHANGED <<cleaning_vars, stdout, error, analysis_vars>>

\* generate_analysis_report lines 303-306
SaveDailyTrends ==
    /\ pc = "saved_category_analysis"
    /\ files' = Put(files, "daily_price_trends.csv", "complete")
    /\ pc' = "saved_daily_trends"
    /\ UNCHANGED <<cleaning_vars, stdout, error, analysis_vars>>

\* generate_analysis_report line 309
SaveCorrelationMatrix ==
    /\ pc = "saved_daily_trends"
    /\ files' = Put(files, "correlation_matrix.csv", "complete")
    /\ pc' = "saved_correlation"
    /\ UNCHANGED <<cleaning_vars, stdout, error, analysis_vars>>

\* generate_analysis_report lines 311-328
SaveConsumerPatterns ==
    /\ pc = "saved_correlation"
    /\ files' = Put(files, "consumer_patterns.json", "complete")
    /\ stdout' = Append(stdout, <<"analysis_saved", 0, 0>>)
    /\ pc' = "saved_analysis"
    /\ UNCHANGED <<cleaning_vars, error, analysis_vars>>

\* one of the four writes of generate_analysis_report raises OSError: before
\* the file exists, or with a part of it written
ReportWriteFails ==
    /\ pc \in DOMAIN ReportOfStep
    /\ \E created \in BOOLEAN :
          files' = IF created THEN Put(files, ReportOfStep[pc], "partial") ELSE files
    /\ pc' = "failed"
    /\ error' = "OSError"
    /\ UNCHANGED <<cleaning_vars, stdout, analysis_vars>>

\* the table has a category with two rows or more: only then is a
\* discount_volatility (mean of the differences of consecutive rows) a number
SomeVolatility ==
    \E j, k \in DOMAIN df :
        j # k /\ df[j]["category"] # None /\ df[j]["category"] = df[k]["category"]

\* run_analysis lines 363-393: the findings. idxmax of the all-NaN
\* discount_volatility column is NaN (a ValueError in later pandas) and
\* .loc of it raises KeyError.
PrintFindings ==
    /\ pc = "saved_analysis"
    /\ IF SomeVolatility
       THEN /\ pc' = "analysis_done"
            /\ error' = error
            /\ stdout' = Append(stdout, <<"key_findings", 0, 0>>)
       ELSE /\ pc' = "failed"
            /\ error' \in {"KeyError", "ValueError"}
            /\ stdout' = stdout
    /\ UNCHANGED <<cleaning_vars, files, analysis_vars>>

NextAnalysis ==
    \/ LoadProcessedData
    \/ AnalyzeCategoryDiscounts
    \/ AnalyzePriceTrends
    \/ AnalyzePricePatterns
    \/ AnalyzeCorrelationMatrix
    \/ SaveCategoryAnalysis
    \/ SaveDailyTrends
    \/ SaveCorrelationMatrix
    \/ SaveConsumerPatterns
    \/ ReportWriteFails
    \/ PrintFindings

SpecAnalysis == InitAnalysis /\ [][NextAnalysis]_vars

----------------------------------------------------------------------------
(* The days cleaned in any order and side by side: every date has its own
   call of clean_daily_data, started at any time, and the calls take their
   steps in any interleaving. A call's locals are in running[date]. *)

\* day lists with a repeated sku, an invalid record, a blank name, and a sku
\* that is invalid on one list and valid on another
ParallelDayLists ==
    {<<BaseRecord>>,
     <<OtherRecord, [BaseRecord EXCEPT !["sale_price"] = Some(Dollars(40))]>>,
     <<[OtherRecord EXCEPT !["original_price"] = Some(0)],
       [BaseRecord EXCEPT !["name"] = Some(<<" ">>)],
       BaseRecord>>}

InitParallel ==
    /\ raw_data \in [Days -> ParallelDayLists]
    /\ raw_files = raw_data
    /\ pc = "clean"
    /\ pending = <<>>
    /\ date = 0
    /\ products = <<>>
    /\ i = 0
    /\ cleaned_products = <<>>
    /\ invalid_count = 0
    /\ all_cleaned_data = <<>>
    /\ ts_df = <<>>
    /\ stdout = <<>>
    /\ error = ""
    /\ summary = <<>>
    /\ files = <<>>
    /\ df = <<>>
    /\ analysis = <<>>
    /\ running = <<>>

\* mutant: seen_skus is shared by the calls, a sku of a day already taken up
\* is dropped
DayProductsSeenAcrossDays(d) ==
    SelectSeq(RemoveDuplicates(raw_data[d]),
              LAMBDA k : \A e \in DOMAIN running \cup DOMAIN all_cleaned_data :
                            \A j \in DOMAIN raw_data[e] :
                                raw_data[e][j]["sku"] # raw_data[d][k]["sku"])

\* clean_daily_data line 210 in the call for date d
DayProducts(d) == RemoveDuplicates(raw_data[d])

\* clean_daily_data lines 208-214 for date d
StartDay(d) ==
    /\ pc = "clean"
    /\ d \notin DOMAIN running \cup DOMAIN all_cleaned_data
    /\ LET unique == DayProducts(d)
           removed == Len(raw_data[d]) - Len(unique)
       IN  /\ running' = Put(running, d, [products |-> unique, i |-> 1,
                                          cleaned_products |-> <<>>,
                                          invalid_count |-> 0])
           /\ stdout' = IF removed > 0
                        THEN Append(stdout, <<"removed_duplicates", d, removed>>)
                        ELSE stdout
    /\ UNCHANGED <<raw_data, pc, pending, date, products, i, cleaned_products,
                   invalid_count, all_cleaned_data, ts_df, error, summary,
                   files, analysis_vars, raw_files>>

\* clean_daily_data lines 216-237 for date d: one iteration of its loop
StepDay(d) ==
    /\ pc = "clean"
    /\ d \in DOMAIN running
    /\ running[d]["i"] <= Len(running[d]["products"])
    /\ LET call == running[d]
           idx == call["products"][call["i"]]
           p0 == raw_data[d][idx]
           cleaned == CleanOne(p0)
       IN  /\ raw_data' = [raw_data EXCEPT ![d][idx] = NameAndCategoryCleaned(p0)]
           /\ IF CleanOneRaises(p0)
              THEN /\ pc' = "failed"
                   /\ error' = IF ValidateAndCleanPricesRaises(NameAndCategoryCleaned(p0))
                               THEN ValidateAndCleanPricesError(NameAndCategoryCleaned(p0))
                               ELSE "TypeError"
                   /\ running' = running
              ELSE /\ running' =
                          [running EXCEPT
                              ![d]["i"] = @ + 1,
                              ![d]["cleaned_products"] = @ \o cleaned,
                              ![d]["invalid_count"] =
                                  IF cleaned = <<>> THEN @ + 1 ELSE @]
                   /\ UNCHANGED <<pc, error>>
    /\ UNCHANGED <<pending, date, products, i, cleaned_products, invalid_count,
                   all_cleaned_data, ts_df, stdout, summary, files,
                   analysis_vars, raw_files>>

\* clean_daily_data lines 239-244 for date d and clean_data line 395
FinishDay(d) ==
    /\ pc = "clean"
    /\ d \in DOMAIN running
    /\ running[d]["i"] > Len(running[d]["products"])
    /\ stdout' = (IF running[d]["invalid_count"] > 0
                  THEN Append(stdout, <<"removed_invalid", d,
                                        running[d]["invalid_count"]>>)
                  ELSE stdout)
                 \o << <<"cleaned_products", d,
                         Len(running[d]["cleaned_products"])>> >>
    /\ all_cleaned_data' = Put(all_cleaned_data, d, running[d]["cleaned_products"])
    /\ running' = Del(running, d)
    /\ UNCHANGED <<raw_data, pc, pending, date, products, i, cleaned_products,
                   invalid_count, ts_df, error, summary, files, analysis_vars,
                   raw_files>>

NextParallel ==
    \/ \E d \in DOMAIN raw_data : StartDay(d)
    \/ \E d \in DOMAIN raw_data : StepDay(d)
    \/ \E d \in DOMAIN raw_data : FinishDay(d)

SpecParallel == InitParallel /\ [][NextParallel]_vars

----------------------------------------------------------------------------
(* Vocabulary of the properties *)

\* <<date, record>> for every record clean_daily_data has put out so far:
\* the lists of the finished days and the list of the running call
Outputs ==
    UNION {{<<d, all_cleaned_data[d][k]>> : k \in DOMAIN all_cleaned_data[d]}
           : d \in DOMAIN all_cleaned_data}
    \cup {<<date, cleaned_products[k]>> : k \in DOMAIN cleaned_products}

\* positions of the first occurrence of each sku in a list
FirstOccurrences(list) ==
    {k \in DOMAIN list : \A j \in 1..(k - 1) : list[j]["sku"] # list[k]["sku"]}

\* the raw dict an output record of date d was made from: the first one of
\* that day with its sku
RawOf(d, c) ==
    raw_data[d][CHOOSE k \in FirstOccurrences(raw_data[d]) :
                    raw_data[d][k]["sku"] = c["sku"]]

HasRaw(d, c) ==
    \E k \in DOMAIN raw_data[d] : raw_data[d][k]["sku"] = c["sku"]

OriginalOf(c) == Val(c["original_price"])
DiscountOf(c) == Val(c["discount_percentage"])

\* the raw dict has an original_price that is present, not null and positive
RawOriginalValid(r) ==
    /\ "original_price" \in DOMAIN r
    /\ r["original_price"] # None
    /\ Val(r["original_price"]) > 0

----------------------------------------------------------------------------
(* C1 - C10 *)

\* C1: for every record clean_daily_data outputs, discount_percentage > 0
\* exactly when sale_price < original_price.
C1_DiscountIffSaleBelowOriginal ==
    \A o \in Outputs :
        LET c == o[2]
        IN  (DiscountOf(c) > 0)
                <=> (c["sale_price"] # None /\ Val(c["sale_price"]) < OriginalOf(c))

\* C2: every record clean_daily_data outputs has a numeric sale_price with
\* sale_price <= original_price, whatever the raw sale_price was.
C2_SalePriceNumericAndBounded ==
    \A o \in Outputs :
        LET c == o[2]
        IN  c["sale_price"] # None /\ Val(c["sale_price"]) <= OriginalOf(c)

\* C3: every output record has discount_percentage equal to
\* round((1 - sale_price/original_price) * 100, 1) on its rounded, clamped
\* prices whenever sale_price < original_price, and 0 otherwise.
C3_DiscountRecomputed ==
    \A o \in Outputs :
        LET c == o[2]
        IN  IF c["sale_price"] # None /\ Val(c["sale_price"]) < OriginalOf(c)
            THEN OriginalOf(c) > 0
                 /\ DiscountOf(c) = RoundDiscount(OriginalOf(c), Val(c["sale_price"]))
            ELSE DiscountOf(c) = 0

\* C4: the cleaned and enriched record does not depend on the raw
\* discount_percentage: the record put out is the one cleaning and enriching
\* yield from the same raw dict with any other discount_percentage, or none.
C4_RawDiscountIgnored ==
    \A o \in Outputs :
        LET c == o[2]
            r == RawOf(o[1], c)
        IN  \A alt \in Variants(r, "discount_percentage", RawDiscounts) :
                /\ ~ValidateAndCleanPricesRaises(alt)
                /\ ~AddDerivedFeaturesRaises(ValidateAndCleanPrices(alt))
                /\ Del(AddDerivedFeatures(ValidateAndCleanPrices(alt)), "is_valid") = c

\* C4 witness: a record was put out whose raw discount_percentage differs
\* from the cleaned one.
C4_Witness ==
    \E o \in Outputs :
        LET r == RawOf(o[1], o[2])
        IN  /\ Get(r, "discount_percentage", None) = Some(999)
            /\ DiscountOf(o[2]) = Percent(25)
            /\ o[2]["discount_tier"] = "medium"

\* C5: a raw record whose original_price is missing, null or <= 0 never
\* appears in the output of clean_daily_data nor in the time-series table:
\* every output record and every table row comes from a raw record of its
\* date whose original_price is present and positive, and carries that price
\* rounded.
FromValidRaw(d, c) ==
    /\ d \in DOMAIN raw_data
    /\ HasRaw(d, c)
    /\ LET r == RawOf(d, c)
       IN  /\ RawOriginalValid(r)
           /\ c["original_price"] = Some(Round2(Val(r["original_price"])))

C5_InvalidRecordsExcluded ==
    /\ \A o \in Outputs : FromValidRaw(o[1], o[2])
    /\ \A k \in DOMAIN ts_df : FromValidRaw(ts_df[k]["date"], ts_df[k])

\* C5 witness: the table was built from a day that held an invalid record
\* next to a valid one.
C5_Witness ==
    /\ pc = "assembled"
    /\ \E d \in DOMAIN raw_data :
          /\ \E k \in FirstOccurrences(raw_data[d]) :
                ~RawOriginalValid(raw_data[d][k])
          /\ \E k \in DOMAIN ts_df : ts_df[k]["date"] = d

\* C6: every record clean_daily_data outputs has an original_price that is
\* strictly positive after rounding to 2 decimals.
C6_OriginalPricePositive ==
    \A o \in Outputs : o[2]["original_price"] # None /\ OriginalOf(o[2]) > 0

\* C7: a raw record with a valid original_price and sale_price above it is
\* kept, with sale_price equal to original_price, discount_percentage 0,
\* discount_tier "none" and savings_amount 0; 300/450 gives sale_price 300.00
\* and price_tier "luxury".
RawSaleAboveOriginal(r) ==
    /\ RawOriginalValid(r)
    /\ Get(r, "sale_price", None) # None
    /\ Val(r["sale_price"]) > Val(r["original_price"])

C7_SaleAboveOriginalClamped ==
    /\ \A o \in Outputs :
          LET c == o[2]
              r == RawOf(o[1], c)
          IN  RawSaleAboveOriginal(r) =>
                 /\ c["sale_price"] = c["original_price"]
                 /\ DiscountOf(c) = 0
                 /\ c["discount_tier"] = "none"
                 /\ c["savings_amount"] = 0
                 /\ (r["original_price"] = Some(Dollars(300))
                        /\ r["sale_price"] = Some(Dollars(450))
                     => c["sale_price"] = Some(Dollars(300))
                        /\ c["price_tier"] = "luxury")
    \* kept, not rejected: once the day is done, each such first occurrence
    \* has its record in the day's output
    /\ \A d \in DOMAIN all_cleaned_data :
          \A k \in FirstOccurrences(raw_data[d]) :
              RawSaleAboveOriginal(raw_data[d][k]) =>
                  \E n \in DOMAIN all_cleaned_data[d] :
                      all_cleaned_data[d][n]["sku"] = raw_data[d][k]["sku"]

\* C7 witness: the 300/450 record has been cleaned and put out.
C7_Witness ==
    \E o \in Outputs :
        LET r == RawOf(o[1], o[2])
        IN  /\ r["original_price"] = Some(Dollars(300))
            /\ r["sale_price"] = Some(Dollars(450))
            /\ o[1] \in DOMAIN all_cleaned_data

\* C8: remove_duplicates returns exactly the first occurrence of each sku in
\* original order: no sku twice, length = input length minus the occurrences
\* beyond the first, every kept record the earliest with its sku; the number
\* removed is what it reports.
LaterOccurrences(list) == (DOMAIN list) \ FirstOccurrences(list)

C8_DedupFirstOccurrence ==
    pc \in {"day", "failed"} /\ date \in DOMAIN raw_data =>
        LET list == raw_data[date]
        IN  /\ \A a, b \in DOMAIN products :
                  a < b => /\ products[a] < products[b]
                           /\ list[products[a]]["sku"] # list[products[b]]["sku"]
            /\ Len(products) = Len(list) - Cardinality(LaterOccurrences(list))
            /\ Range(products) = FirstOccurrences(list)
            /\ (\E n \in 1..Len(list) : \E m \in DOMAIN stdout :
                    stdout[m] = <<"removed_duplicates", date, n>>)
                   <=> Len(products) < Len(list)
            /\ \A m \in DOMAIN stdout :
                  stdout[m][1] = "removed_duplicates" /\ stdout[m][2] = date
                      => stdout[m][3] = Cardinality(LaterOccurrences(list))

\* C8 witness: a three-record day whose third record repeats the sku of the
\* first has been deduplicated to two.
C8_Witness ==
    /\ pc = "day"
    /\ Len(raw_data[date]) = 3
    /\ raw_data[date][1]["sku"] = raw_data[date][3]["sku"]
    /\ raw_data[date][1]["sku"] # raw_data[date][2]["sku"]
    /\ raw_data[date][1] # raw_data[date][3]
    /\ products = <<1, 2>>

\* C9: the output of clean_daily_data is the sequence of the valid records
\* of the deduplicated input in their original relative order; output length
\* plus the reported invalid count equals the number of records left after
\* deduplication; no invalid record is retained.
ValidFirstOccurrences(list) ==
    {k \in FirstOccurrences(list) : RawOriginalValid(list[k])}

\* the invalid count the run printed for date d (nothing is printed for 0)
ReportedInvalid(d) ==
    IF \E m \in DOMAIN stdout : stdout[m][1] = "removed_invalid" /\ stdout[m][2] = d
    THEN (CHOOSE e \in Range(stdout) : e[1] = "removed_invalid" /\ e[2] = d)[3]
    ELSE 0

C9_OutputIsValidSubsequence ==
    /\ \A d \in DOMAIN all_cleaned_data :
          LET list == raw_data[d]
              out == all_cleaned_data[d]
              kept == Sorted(ValidFirstOccurrences(list))
          IN  /\ Len(out) = Len(kept)
              /\ \A n \in DOMAIN out :
                    /\ n <= Len(kept)
                    /\ out[n]["sku"] = list[kept[n]]["sku"]
                    /\ out[n]["original_price"] =
                           Some(Round2(Val(list[kept[n]]["original_price"])))
                    /\ "is_valid" \notin DOMAIN out[n]
              /\ Len(out) + ReportedInvalid(d) = Cardinality(FirstOccurrences(list))
              /\ <<"cleaned_products", d, Len(out)>> \in Range(stdout)
    /\ pc = "day" => Len(cleaned_products) + invalid_count = i - 1
    /\ pc = "day" => Len(products) = Cardinality(FirstOccurrences(raw_data[date]))

\* C9 witness: a finished day of three records, of which one was a
\* duplicate, one invalid and one put out.
C9_Witness ==
    \E d \in DOMAIN all_cleaned_data :
        /\ Len(raw_data[d]) = 3
        /\ Cardinality(FirstOccurrences(raw_data[d])) = 2
        /\ ReportedInvalid(d) = 1
        /\ Len(all_cleaned_data[d]) = 1
        /\ ~RawOriginalValid(raw_data[d][1])

\* C10: price_tier follows exact cut points on original_price: budget for
\* 0 < price < 50, mid-range for 50 <= price < 100, premium for
\* 100 <= price < 200, luxury for price >= 200.
C10_PriceTierCutPoints ==
    \A o \in Outputs :
        LET price == OriginalOf(o[2])
            tier == o[2]["price_tier"]
        IN  /\ (0 < price /\ price < Dollars(50)) => tier = "budget"
            /\ (Dollars(50) <= price /\ price < Dollars(100)) => tier = "mid-range"
            /\ (Dollars(100) <= price /\ price < Dollars(200)) => tier = "premium"
            /\ Dollars(200) <= price => tier = "luxury"

\* C10 witness: one day put out a record priced exactly 50.00 as mid-range,
\* one priced exactly 100.00 as premium and one priced exactly 200.00 as luxury.
C10_Witness ==
    \E d \in DOMAIN all_cleaned_data :
        \A cut \in {<<50, "mid-range">>, <<100, "premium">>, <<200, "luxury">>} :
            \E n \in DOMAIN all_cleaned_data[d] :
                /\ OriginalOf(all_cleaned_data[d][n]) = Dollars(cut[1])
                /\ all_cleaned_data[d][n]["price_tier"] = cut[2]

\* C11: discount_tier follows exact cut points on discount_percentage: none
\* for a discount of 0, small for 0 < discount <= 20, medium for
\* 20 < discount <= 40, large for discount > 40.
C11_DiscountTierCutPoints ==
    \A o \in Outputs :
        LET discount == DiscountOf(o[2])
            tier == o[2]["discount_tier"]
        IN  /\ discount = 0 => tier = "none"
            /\ (0 < discount /\ discount <= Percent(20)) => tier = "small"
            /\ (Percent(20) < discount /\ discount <= Percent(40)) => tier = "medium"
            /\ Percent(40) < discount => tier = "large"

\* C11 witness: one day put out a record discounted exactly 20.0 as small, one
\* discounted exactly 40.0 as medium and one discounted 40.1 as large.
C11_Witness ==
    \E d \in DOMAIN all_cleaned_data :
        \A cut \in {<<Percent(20), "small">>, <<Percent(40), "medium">>,
                    <<Percent(40) + 1, "large">>} :
            \E n \in DOMAIN all_cleaned_data[d] :
                /\ DiscountOf(all_cleaned_data[d][n]) = cut[1]
                /\ all_cleaned_data[d][n]["discount_tier"] = cut[2]

\* C12: for every enriched record savings_amount equals original_price minus
\* sale_price (both already rounded to 2 decimals) whenever both prices are
\* present, and is 0 when a price is absent.
C12_SavingsAmount ==
    \A o \in Outputs :
        LET sale == o[2]["sale_price"]
        IN  o[2]["savings_amount"] =
                IF sale = None THEN 0 ELSE OriginalOf(o[2]) - Val(sale)

\* C13: cleaning is idempotent: clean_daily_data applied to a list that
\* clean_daily_data has returned gives that same list back (same order, same
\* field values, no record dropped).
C13_CleaningIdempotent ==
    \A d \in DOMAIN all_cleaned_data :
        /\ ~CleanDailyDataRaises(all_cleaned_data[d])
        /\ CleanDailyData(all_cleaned_data[d]) = all_cleaned_data[d]

\* number of records in the cleaned lists of the dates in S
RECURSIVE RecordsOfDays(_)
RecordsOfDays(S) ==
    IF S = {} THEN 0
    ELSE LET d == CHOOSE d \in S : TRUE
         IN  Len(all_cleaned_data[d]) + RecordsOfDays(S \ {d})

\* C14: the assembled table has exactly one row per record of every day's
\* cleaned list (as many rows as the lists have records together, a sku once
\* per day it was seen), in ascending date order and within a date in the
\* order of the day's list.
C14_OneRowPerRecordInOrder ==
    ts_df # <<>> =>
        /\ Len(ts_df) = RecordsOfDays(DOMAIN all_cleaned_data)
        /\ \A d \in DOMAIN all_cleaned_data : \A n \in DOMAIN all_cleaned_data[d] :
              LET earlier == {e \in DOMAIN all_cleaned_data : e < d}
                  row == ts_df[RecordsOfDays(earlier) + n]
              IN  /\ row["date"] = d
                  /\ \A c \in DOMAIN row \ {"date"} :
                        row[c] = all_cleaned_data[d][n][c]
        /\ \A j, k \in DOMAIN ts_df : j < k => ts_df[j]["date"] <= ts_df[k]["date"]

\* C14 witness: a table of two dates whose second date has two rows, with a
\* sku that has a row on each date.
C14_Witness ==
    /\ pc = "assembled"
    /\ \E j, k \in DOMAIN ts_df :
          /\ j < k
          /\ ts_df[j]["date"] = ts_df[k]["date"]
          /\ \E h \in DOMAIN ts_df : /\ ts_df[h]["date"] < ts_df[j]["date"]
                                     /\ ts_df[h]["sku"] = ts_df[k]["sku"]

\* C15: in the table clean_data assembles no two rows have the same date and
\* the same sku (the same sku may have rows on several dates).
C15_DateSkuIsKey ==
    \A j, k \in DOMAIN ts_df :
        (/\ ts_df[j]["date"] = ts_df[k]["date"]
         /\ ts_df[j]["sku"] = ts_df[k]["sku"]) => j = k

\* C15 witness: a table in which one sku has rows on two dates, one of them
\* a date whose raw list held that sku twice.
C15_Witness ==
    /\ pc = "assembled"
    /\ \E j, k \in DOMAIN ts_df :
          /\ ts_df[j]["sku"] = ts_df[k]["sku"]
          /\ ts_df[j]["date"] < ts_df[k]["date"]
          /\ \E m, n \in DOMAIN raw_data[ts_df[k]["date"]] :
                /\ m < n
                /\ raw_data[ts_df[k]["date"]][m]["sku"] = ts_df[k]["sku"]
                /\ raw_data[ts_df[k]["date"]][n]["sku"] = ts_df[k]["sku"]

\* positions of the rows of the table with a discount above 0
DiscountedRows == {k \in DOMAIN ts_df : DiscountOf(ts_df[k]) > 0}

RECURSIVE DiscountTotal(_)
DiscountTotal(S) ==
    IF S = {} THEN 0
    ELSE LET k == CHOOSE k \in S : TRUE
         IN  DiscountOf(ts_df[k]) + DiscountTotal(S \ {k})

\* C16: the summary's mean_discount is the mean, to 2 decimals, of the
\* discounts of the rows with discount_percentage > 0 only; when no row has a
\* discount it is NaN, not 0, and products_on_sale_pct is 0.
C16_MeanDiscountOverDiscountedRows ==
    summary # <<>> =>
        LET stats == summary["discount_statistics"]
            mean == stats["mean_discount"]
            n == Cardinality(DiscountedRows)
        IN  IF n = 0
            THEN mean = NaN /\ mean # Some(0) /\ stats["products_on_sale_pct"] = 0
            ELSE /\ mean # NaN
                 /\ 2 * (Val(mean) * n - 10 * DiscountTotal(DiscountedRows)) <= n
                 /\ 2 * (10 * DiscountTotal(DiscountedRows) - Val(mean) * n) <= n

\* C16 witness: the summary of a table of several rows none of which has a
\* discount, with mean_discount NaN.
C16_Witness ==
    /\ pc = "summarized"
    /\ Len(ts_df) > 1
    /\ DiscountedRows = {}
    /\ summary["discount_statistics"]["mean_discount"] = NaN

\* every day has been cleaned and no record is left for the table
EmptyTable ==
    /\ DOMAIN raw_data # {}
    /\ DOMAIN all_cleaned_data = DOMAIN raw_data
    /\ \A d \in DOMAIN all_cleaned_data : all_cleaned_data[d] = <<>>

\* C17: when the raw data has days but no valid record remains, the run past
\* the cleaning of the days ends with an explicit "no data" condition (a
\* no-data diagnostic or a no-data error), not with an unrelated error and
\* not with a summary.
C17_EmptyTableFailsWithNoData ==
    (EmptyTable /\ pc \notin {"load", "clean", "day"}) =>
        /\ summary = <<>>
        /\ \/ error = "NoDataError"
           \/ \E k \in DOMAIN stdout : stdout[k][1] = "error_no_data"

\* C18: when the loader returns an empty date mapping, clean_data stops with
\* the no-data diagnostic as its only output: no day is cleaned, no table or
\* summary is built and no output file is written.
C18_NoRawDataAborts ==
    (DOMAIN raw_data = {} /\ pc # "load") =>
        /\ pc = "nodata"
        /\ stdout = << <<"error_no_data", 0, 0>> >>
        /\ DOMAIN files = {}
        /\ DOMAIN all_cleaned_data = {}
        /\ date = 0 /\ cleaned_products = <<>>
        /\ ts_df = <<>> /\ summary = <<>>

\* C18 witness: the run has returned at line 389 on an empty mapping.
C18_Witness ==
    /\ DOMAIN raw_data = {}
    /\ pc = "nodata"
    /\ Len(stdout) = 1

OutputFiles == {FileOfStep[step] : step \in DOMAIN FileOfStep}

\* C19: a run of clean_data that has ended leaves either all four output
\* files, each completely written, or none: an aborted run (no data, an
\* exception while cleaning, assembling, summarizing or writing) leaves no
\* output file behind.
C19_AllOutputFilesOrNone ==
    /\ pc = "done" =>
          /\ DOMAIN files = OutputFiles
          /\ \A f \in OutputFiles : files[f] = "complete"
    /\ pc \in {"failed", "nodata"} => DOMAIN files = {}

AggregateFiles == {ReportOfStep[step] : step \in DOMAIN ReportOfStep}

\* generate_analysis_report has returned (its last line has printed)
ReportSaved == \E k \in DOMAIN stdout : stdout[k][1] = "analysis_saved"

\* C20: a run of run_analysis that has failed while loading, in one of the
\* four analyses or while saving leaves none of the four aggregate files in
\* the directory, neither complete nor partly written.
C20_NoAggregateFileAfterFailure ==
    (pc = "failed" /\ ~ReportSaved) => DOMAIN files \cap AggregateFiles = {}

\* C26: in every record clean_daily_data puts out the category is a
\* non-empty string without upper-case letters and without leading or
\* trailing whitespace (a raw category that is missing, null, empty or blank
\* has become "uncategorized").
C26_CategoryStandardized ==
    \A o \in Outputs :
        LET category == o[2]["category"]
        IN  /\ category # None
            /\ Val(category) # <<>>
            /\ \A k \in DOMAIN Val(category) : ~IsUpper(Val(category)[k])
            /\ ~IsSpace(Val(category)[1])
            /\ ~IsSpace(Val(category)[Len(Val(category))])

\* C27: the cleaning of a day depends on that day's raw list only: in
\* whatever order the days are taken up and however their steps interleave,
\* the list put out for a date is what clean_daily_data makes of that date's
\* list alone, and a call under way has got from its own list what it has.
C27_DaysCleanedIndependently ==
    /\ \A d \in DOMAIN all_cleaned_data :
          all_cleaned_data[d] = CleanDailyData(raw_files[d])
    /\ \A d \in DOMAIN running :
          /\ running[d]["products"] = RemoveDuplicates(raw_files[d])
          /\ running[d]["cleaned_products"] =
                 CleanDailyDataLoop(raw_files[d],
                                    SubSeq(running[d]["products"], 1,
                                           running[d]["i"] - 1))

\* C27 witness: a later date is finished, with a record removed, while the
\* call of an earlier date that holds the same sku is in the middle of its
\* loop.
C27_Witness ==
    \E d \in DOMAIN running : \E e \in DOMAIN all_cleaned_data :
        /\ d < e
        /\ running[d]["i"] > 1
        /\ running[d]["i"] <= Len(running[d]["products"])
        /\ Len(all_cleaned_data[e]) < Len(raw_files[e])
        /\ \E j \in DOMAIN raw_files[d] : \E k \in DOMAIN all_cleaned_data[e] :
              raw_files[d][j]["sku"] = all_cleaned_data[e][k]["sku"]

\* C28: deduplication runs before validation: a sku whose first occurrence
\* in a day's list is invalid (original_price missing, null or <= 0) is
\* absent from the day's cleaned list, also when a later occurrence of the
\* sku in the list is valid.
C28_InvalidFirstOccurrenceDropsSku ==
    \A d \in DOMAIN all_cleaned_data :
        \A k \in FirstOccurrences(raw_files[d]) :
            ~RawOriginalValid(raw_files[d][k]) =>
                \A n \in DOMAIN all_cleaned_data[d] :
                    all_cleaned_data[d][n]["sku"] # raw_files[d][k]["sku"]

\* C28 witness: a finished day whose list has an invalid first occurrence of
\* a sku and a valid later one, and whose cleaned list holds another sku but
\* not that one.
C28_Witness ==
    \E d \in DOMAIN all_cleaned_data :
        /\ all_cleaned_data[d] # <<>>
        /\ \E j, k \in DOMAIN raw_files[d] :
              /\ j < k
              /\ j \in FirstOccurrences(raw_files[d])
              /\ raw_files[d][j]["sku"] = raw_files[d][k]["sku"]
              /\ ~RawOriginalValid(raw_files[d][j])
              /\ RawOriginalValid(raw_files[d][k])
              /\ \A n \in DOMAIN all_cleaned_data[d] :
                    all_cleaned_data[d][n]["sku"] # raw_files[d][j]["sku"]

\* the fields of a raw record that clean_daily_data may write
WrittenInPlace == {"name", "category"}

\* C29: clean_daily_data leaves every field of the caller's raw records as
\* loaded, original_price, sale_price and discount_percentage among them,
\* except name and category, which it overwrites in place with their
\* cleaned values on every record its loop has taken up, valid or invalid;
\* the records its loop does not take up (repeated skus) stay as loaded.
C29_RawPricesUntouched ==
    \A d \in DOMAIN raw_data : \A k \in DOMAIN raw_data[d] :
        LET now == raw_data[d][k]
            loaded == raw_files[d][k]
        IN  /\ DOMAIN now \ WrittenInPlace = DOMAIN loaded \ WrittenInPlace
            /\ \A f \in DOMAIN loaded \ WrittenInPlace : now[f] = loaded[f]
            /\ now # loaded => k \in FirstOccurrences(raw_files[d])
            /\ (d \in DOMAIN all_cleaned_data /\ k \in FirstOccurrences(raw_files[d]))
                   => /\ now["name"] = CleanProductName(Get(loaded, "name", Some(<<>>)))
                      /\ now["category"] =
                             StandardizeCategory(Get(loaded, "category", Some(<<>>)))

\* C29 witness: a finished day with an invalid record whose name and
\* category were rewritten in place, and a valid one whose sale_price was
\* clamped in the output while the raw record still holds the loaded price.
C29_Witness ==
    \E d \in DOMAIN all_cleaned_data :
        /\ \E k \in DOMAIN raw_data[d] :
              /\ ~RawOriginalValid(raw_files[d][k])
              /\ raw_data[d][k] # raw_files[d][k]
        /\ \E k \in DOMAIN raw_data[d] : \E n \in DOMAIN all_cleaned_data[d] :
              /\ all_cleaned_data[d][n]["sku"] = raw_data[d][k]["sku"]
              /\ k \in FirstOccurrences(raw_files[d])
              /\ raw_data[d][k]["sale_price"] # all_cleaned_data[d][n]["sale_price"]

\* the rows analyze_category_discounts has returned
CategoryAnalysis ==
    IF "category_analysis" \in DOMAIN analysis
    THEN analysis["category_analysis"] ELSE <<>>

\* C21: the discount_volatility analyze_category_discounts reports for a
\* category is the mean absolute difference of that category's discount on
\* consecutive days (one value per day, the first day without a difference),
\* not of consecutive product rows.
C21_VolatilityIsDayOverDay ==
    \A n \in DOMAIN CategoryAnalysis :
        CategoryAnalysis[n]["discount_volatility"] =
            DayOverDayVolatility(CategoryRows(df, CategoryAnalysis[n]["category"]))

\* the category has no row with discount_percentage > 0
NoDiscountedRow(category) ==
    \A k \in DOMAIN df :
        df[k]["category"] = Some(category) => Val(df[k]["discount_percentage"]) <= 0

\* C24: for a category without a row of discount_percentage > 0 the mean
\* discount the category analysis reports is undefined, never the number 0.
C24_NoDiscountedRowMeanUndefined ==
    \A n \in DOMAIN CategoryAnalysis :
        NoDiscountedRow(CategoryAnalysis[n]["category"])
            => CategoryAnalysis[n]["avg_discount"] # 0

\* the (date, position) observations of a cleaned daily collection
Observations(all_data) ==
    UNION {{<<d, k>> : k \in DOMAIN all_data[d]} : d \in DOMAIN all_data}

\* the sum of f over a finite set
RECURSIVE SetSum(_, _)
SetSum(S, f) ==
    IF S = {} THEN 0
    ELSE LET x == CHOOSE y \in S : TRUE IN f[x] + SetSum(S \ {x}, f)

\* the observations of one category
ObservationsOf(all_data, category) ==
    {o \in Observations(all_data) :
        all_data[o[1]][o[2]]["category"] = Some(category)}

\* the mean discount of a category over the observations, in 1/100 percent
DirectMeanDiscount(all_data, category) ==
    LET S == ObservationsOf(all_data, category)
    IN  RoundDiv(10 * SetSum(S, [o \in S |->
                     Val(all_data[o[1]][o[2]]["discount_percentage"])]),
                 Cardinality(S))

\* the mean savings of a category over the observations, in 1/500 dollar
DirectMeanSavings(all_data, category) ==
    LET S == ObservationsOf(all_data, category)
    IN  5 * RoundDiv(SetSum(S, [o \in S |->
                     all_data[o[1]][o[2]]["savings_amount"]]) \div 5,
                     Cardinality(S))

\* C25: the mean discount and the mean savings the category analysis
\* reports from the table create_time_series_data assembled are, for every
\* category of the collection, the means taken directly over all (date,
\* record) observations of the cleaned daily collection.
C25_CategoryMeansRoundTrip ==
    (df = ts_df /\ "category_analysis" \in DOMAIN analysis) =>
        /\ {CategoryAnalysis[n]["category"] : n \in DOMAIN CategoryAnalysis}
             = {Val(all_cleaned_data[o[1]][o[2]]["category"]) :
                    o \in Observations(all_cleaned_data)}
        /\ \A n \in DOMAIN CategoryAnalysis :
              LET row == CategoryAnalysis[n]
              IN  /\ row["avg_discount"] =
                        DirectMeanDiscount(all_cleaned_data, row["category"])
                  /\ row["avg_savings"] =
                        DirectMeanSavings(all_cleaned_data, row["category"])

\* two days of observations with different discounts have been analysed
C25_Witness ==
    /\ df = ts_df
    /\ \E n \in DOMAIN CategoryAnalysis :
          /\ Cardinality(ObservationsOf(all_cleaned_data,
                                        CategoryAnalysis[n]["category"])) > 1
          /\ CategoryAnalysis[n]["discount_std"] \notin {NaN, Some(0)}
          /\ CategoryAnalysis[n]["avg_savings"] > 0

\* the rows analyze_price_trends has returned
DailyTrends ==
    IF "daily_stats" \in DOMAIN analysis THEN analysis["daily_stats"] ELSE <<>>

\* the daily mean discount goes down by exactly one point per calendar day
DeclinesOnePointPerDay(daily) ==
    /\ Len(daily) >= 2
    /\ \A n \in DOMAIN daily :
          LET mean == Val(daily[n]["avg_discount"])
              first == Val(daily[1]["avg_discount"])
          IN  mean[1] * first[2] =
                  (first[1] - 10 * first[2] * (daily[n]["date"] - daily[1]["date"]))
                      * mean[2]

\* C22: analyze_price_trends regresses the daily mean discount on the days
\* since the first date by least squares: when the daily mean discount goes
\* down by exactly one point per day (as over 5 consecutive days), the slope
\* it prints is -1.000 and the R-squared it prints is 1.000.
C22_TrendOfDailyDecline ==
    ("daily_stats" \in DOMAIN analysis /\ DeclinesOnePointPerDay(DailyTrends))
        => \E k \in DOMAIN stdout : stdout[k] = <<"trend", -1000, 1000>>

\* five consecutive days of a discount going down one point a day have been
\* regressed
C22_Witness ==
    /\ Len(DailyTrends) = 5
    /\ DailyTrends[5]["date"] - DailyTrends[1]["date"] = 4
    /\ DeclinesOnePointPerDay(DailyTrends)
    /\ pc = "analyzed_trends"

\* the positions of the rows of a sku in the table read
RowsOfSku(sku) == {k \in DOMAIN df : df[k]["sku"] = sku}

ObservedSkus == {df[k]["sku"] : k \in DOMAIN df}

\* the discount of row k in 1/10 percent
RowDiscount(k) == Val(df[k]["discount_percentage"])

\* the sum of the discounts of a sku over its observed days
SkuDiscountSum(sku) ==
    SetSum(RowsOfSku(sku), [k \in RowsOfSku(sku) |-> RowDiscount(k)])

\* the sample standard deviation of the discounts of a sku is defined and
\* below 5 points: the variance, the sum of the squared differences of all
\* pairs of days over n (n - 1), is below 25
StdBelowFive(sku) ==
    LET K == RowsOfSku(sku)
        n == Cardinality(K)
        pairs == {p \in K \X K : p[1] < p[2]}
    IN  /\ n >= 2
        /\ SetSum(pairs, [p \in pairs |->
                             (RowDiscount(p[1]) - RowDiscount(p[2]))
                                 * (RowDiscount(p[1]) - RowDiscount(p[2]))])
             < 2500 * n * (n - 1)

\* discounted on every observed day, with a standard deviation below 5
ConsistentlyDiscounted(sku) ==
    /\ \A k \in RowsOfSku(sku) : RowDiscount(k) > 0
    /\ StdBelowFive(sku)

\* the product lines step 6 of analyze_price_patterns has printed
StableLines == SelectSeq(stdout, LAMBDA line : line[1] \in Range(SkuOrder))

\* C23: the number analyze_price_patterns reports as consistently_discounted
\* counts exactly the skus whose discount is > 0 on every observed day and
\* whose standard deviation of discount over their observed days is below
\* 5; the products it lists are these skus, in descending order of their
\* mean discount.
C23_ConsistentlyDiscounted ==
    "patterns" \in DOMAIN analysis =>
        LET expected == {sku \in ObservedSkus : ConsistentlyDiscounted(sku)}
        IN  /\ analysis["patterns"]["consistently_discounted"] = Cardinality(expected)
            /\ Len(StableLines) = Cardinality(expected)
            /\ {StableLines[n][1] : n \in DOMAIN StableLines} = expected
            /\ \A n \in 1..(Len(StableLines) - 1) :
                  LET a == StableLines[n][1]
                      b == StableLines[n + 1][1]
                  IN  SkuDiscountSum(a) * Cardinality(RowsOfSku(b))
                          >= SkuDiscountSum(b) * Cardinality(RowsOfSku(a))

\* two products are listed, the deeper discount first against the order of
\* the skus, one of them with a discount that changed by less than the
\* threshold; a third, discounted on every day, is left out for its spread
C23_Witness ==
    /\ pc = "analyzed_patterns"
    /\ Len(StableLines) = 2
    /\ StableLines[1][1] = "C3"
    /\ StableLines[2][1] = "A1"
    /\ StableLines[1][3] > StableLines[2][3]
    /\ \E j, k \in RowsOfSku("A1") : RowDiscount(j) # RowDiscount(k)
    /\ \A k \in RowsOfSku("B2") : RowDiscount(k) > 0
    /\ Cardinality(RowsOfSku("B2")) = 2

\* the sku is observed on exactly one date
OnOneDate(sku) == Cardinality({df[k]["date"] : k \in RowsOfSku(sku)}) = 1

\* C30: a sku observed on exactly one date is never among the consistently
\* discounted products of analyze_price_patterns, whatever its discount:
\* it is not listed, and the count covers only skus observed on several
\* dates.
C30_SingleDateSkuNeverCounted ==
    "patterns" \in DOMAIN analysis =>
        /\ \A n \in DOMAIN StableLines : ~OnOneDate(StableLines[n][1])
        /\ analysis["patterns"]["consistently_discounted"]
             <= Cardinality({sku \in ObservedSkus : ~OnOneDate(sku)})

\* a sku seen on one date at 40 percent is left out while a sku seen on two
\* dates is counted
C30_Witness ==
    /\ pc = "analyzed_patterns"
    /\ \E sku \in ObservedSkus :
          /\ OnOneDate(sku)
          /\ \A k \in RowsOfSku(sku) : RowDiscount(k) = Percent(40)
    /\ analysis["patterns"]["consistently_discounted"] = 1

====
